---------------------------- MODULE Spec2Model ----------------------------
(***************************************************************************)
(* Patternle: the rule-based sequence engine.                              *)
(*                                                                         *)
(*   - the validator of src/src/lib/rules/validation.ts (structure,        *)
(*     difficulty, ambiguity, full pipeline, and the four rival detectors) *)
(*   - the evaluator of the same file (evaluateNextValue, generateSequence,*)
(*     generateMultipleSequences)                                          *)
(*   - the generation orchestrator of src/unnamed/part_000 (generatePuzzle)*)
(*                                                                         *)
(* Numbers.  The validator receives JavaScript numbers that need not be    *)
(* integers (validateStructure tests Number.isInteger).  In the validator  *)
(* part of this module a JavaScript number x is represented by the integer *)
(* 2x ("halves"), so that x.5 is representable: Num(i) is the integer i,   *)
(* IsInteger(v) is v % 2 = 0.  Quotients (the ratios of checkConstantRatio,*)
(* the coefficients of fitQuadratic) are kept as exact fractions.  The     *)
(* evaluator works on plain integers (integer parameters and seeds); its   *)
(* outputs enter a puzzle through Num.                                     *)
(***************************************************************************)
EXTENDS Integers, Sequences, FiniteSets, TLC

(* src/src/lib/rules/validation.ts:3-5 *)
MIN_VALUE == -999
MAX_VALUE == 999
MIN_SEQUENCE_LENGTH == 4

(* src/unnamed/part_000:10-12 *)
SEQUENCE_LENGTH == 5
NUM_SEQUENCES == 5
MAX_GENERATION_ATTEMPTS == 20

---------------------------------------------------------------------------
(* Number helpers *)

Num(i) == 2 * i

IsInteger(v) == v % 2 = 0

Abs(x) == IF x < 0 THEN -x ELSE x

(* Math.round(n / d) for integers n, d with d # 0: the nearest integer,    *)
(* ties towards +Infinity.                                                 *)
RoundDiv(n, d) ==
  IF d < 0 THEN ((2 * (-n)) + (-d)) \div (2 * (-d))
           ELSE ((2 * n) + d) \div (2 * d)

(* the value null of a detector's result *)
Null == "null"

(* b ** e for an integer e >= 0 *)
RECURSIVE Pow(_, _)
Pow(b, e) == IF e <= 0 THEN 1 ELSE b * Pow(b, e - 1)

(* variant of Differences: every term is compared with the first term *)
DifferencesFromFirst(sequence) ==
  [i \in 1 .. (Len(sequence) - 1) |-> sequence[i + 1] - sequence[1]]

(* differences[i] = sequence[i] - sequence[i-1] *)
Differences(sequence) ==
  [i \in 1 .. (Len(sequence) - 1) |-> sequence[i + 1] - sequence[i]]

---------------------------------------------------------------------------
(* Rival detectors, validation.ts:82-268 *)

(* variant of PowerSum: the positions are x = 0 .. n-1 *)
RECURSIVE PowerSumFromZero(_, _, _, _)
PowerSumFromZero(sequence, k, withY, n) ==
  IF n = 0 THEN 0
  ELSE PowerSumFromZero(sequence, k, withY, n - 1)
       + (Pow(n - 1, k) * (IF withY THEN sequence[n] ELSE 1))

(* validation.ts:94-109: the sum over x = 1..n of x^k, times sequence[x-1]  *)
(* of the source when withY                                                *)
RECURSIVE PowerSum(_, _, _, _)
PowerSum(sequence, k, withY, n) ==
  IF n = 0 THEN 0
  ELSE PowerSum(sequence, k, withY, n - 1)
       + (Pow(n, k) * (IF withY THEN sequence[n] ELSE 1))

QuadDet(sumX0, sumX1, sumX2, sumX3, sumX4) ==
  (sumX0 * ((sumX2 * sumX4) - (sumX3 * sumX3)))
  - (sumX1 * ((sumX1 * sumX4) - (sumX3 * sumX2)))
  + (sumX2 * ((sumX1 * sumX3) - (sumX2 * sumX2)))

QuadDetC(sumX1, sumX2, sumX3, sumX4, sumY, sumX1Y, sumX2Y) ==
  (sumY * ((sumX2 * sumX4) - (sumX3 * sumX3)))
  - (sumX1 * ((sumX1Y * sumX4) - (sumX3 * sumX2Y)))
  + (sumX2 * ((sumX1Y * sumX3) - (sumX2 * sumX2Y)))

QuadDetB(sumX0, sumX1, sumX2, sumX3, sumX4, sumY, sumX1Y, sumX2Y) ==
  (sumX0 * ((sumX1Y * sumX4) - (sumX3 * sumX2Y)))
  - (sumY * ((sumX1 * sumX4) - (sumX3 * sumX2)))
  + (sumX2 * ((sumX1 * sumX2Y) - (sumX1Y * sumX2)))

QuadDetA(sumX0, sumX1, sumX2, sumX3, sumY, sumX1Y, sumX2Y) ==
  (sumX0 * ((sumX2 * sumX2Y) - (sumX1Y * sumX3)))
  - (sumX1 * ((sumX1 * sumX2Y) - (sumX1Y * sumX2)))
  + (sumY * ((sumX1 * sumX3) - (sumX2 * sumX2)))

(* det * (a*x*x + b*x + c) *)
Predicted(detA, detB, detC, x) == (detA * x * x) + (detB * x) + detC

(* validation.ts:152-157: |det| * (the sum of |sequence[i] - predicted|     *)
(* over the first n terms)                                                 *)
RECURSIVE ErrorSum(_, _, _, _, _, _)
ErrorSum(sequence, det, detA, detB, detC, n) ==
  IF n = 0 THEN 0
  ELSE ErrorSum(sequence, det, detA, detB, detC, n - 1)
       + Abs((sequence[n] * det) - Predicted(detA, detB, detC, n))

(* validation.ts:121-130, Math.abs(det) < 1e-10, which is n < 3: the       *)
(* linear fit through the end points.  For n < 2 the slope is 0/0 or       *)
(* undefined/-1, so nextValue is NaN.                                      *)
LinearFallback(sequence, n) ==
  IF n = 2
  THEN [singular |-> TRUE, isNaN |-> FALSE, n |-> n, det |-> 1, detA |-> 0,
        detB |-> sequence[2] - sequence[1],
        detC |-> sequence[1] - (sequence[2] - sequence[1]),
        nextValue |->
          Num(RoundDiv(sequence[1] + ((sequence[2] - sequence[1]) * n), 2)),
        errorSum |-> 0]
  ELSE [singular |-> TRUE, isNaN |-> TRUE, n |-> n, det |-> 1, detA |-> 0,
        detB |-> 0, detC |-> 0, nextValue |-> 0, errorSum |-> 0]

(* validation.ts:147-167: the coefficients are detA/det, detB/det, detC/det *)
CramerFit(sequence, n, det, detA, detB, detC) ==
  [singular |-> FALSE, isNaN |-> FALSE, n |-> n, det |-> det,
   detA |-> detA, detB |-> detB, detC |-> detC,
   nextValue |-> Num(RoundDiv(Predicted(detA, detB, detC, n + 1), 2 * det)),
   errorSum |-> ErrorSum(sequence, det, detA, detB, detC, n)]

SolveQuadratic(sequence, n, sumX0, sumX1, sumX2, sumX3, sumX4, sumY, sumX1Y, sumX2Y) ==
  IF QuadDet(sumX0, sumX1, sumX2, sumX3, sumX4) = 0
  THEN LinearFallback(sequence, n)
  ELSE CramerFit(sequence, n,
                 QuadDet(sumX0, sumX1, sumX2, sumX3, sumX4),
                 QuadDetA(sumX0, sumX1, sumX2, sumX3, sumY, sumX1Y, sumX2Y),
                 QuadDetB(sumX0, sumX1, sumX2, sumX3, sumX4, sumY, sumX1Y,
                          sumX2Y),
                 QuadDetC(sumX1, sumX2, sumX3, sumX4, sumY, sumX1Y, sumX2Y))

(* The result keeps the determinants instead of the quotients: nextValue   *)
(* is Math.round(Predicted / det) and error is errorSum / (|det| * n).     *)
fitQuadratic(sequence) ==
  SolveQuadratic(sequence, Len(sequence), Len(sequence),
                 PowerSum(sequence, 1, FALSE, Len(sequence)),
                 PowerSum(sequence, 2, FALSE, Len(sequence)),
                 PowerSum(sequence, 3, FALSE, Len(sequence)),
                 PowerSum(sequence, 4, FALSE, Len(sequence)),
                 PowerSum(sequence, 0, TRUE, Len(sequence)),
                 PowerSum(sequence, 1, TRUE, Len(sequence)),
                 PowerSum(sequence, 2, TRUE, Len(sequence)))

(* quadFit.error < 0.5: error is Infinity on the singular branch, else      *)
(* errorSum / (|det| * n) halves                                           *)
FitErrorBelowHalf(fit) ==
  /\ ~fit.singular
  /\ fit.errorSum < Abs(fit.det) * fit.n

checkConstantDifference(sequence) ==
  IF Len(sequence) < 2
  THEN [isConstant |-> FALSE, difference |-> Null, nextValue |-> Null]
  ELSE LET differences == Differences(sequence)
           allSame == \A i \in DOMAIN differences : differences[i] = differences[1]
       IN IF allSame
          THEN [isConstant |-> TRUE, difference |-> differences[1],
                nextValue |-> sequence[Len(sequence)] + differences[1]]
          ELSE [isConstant |-> FALSE, difference |-> Null, nextValue |-> Null]

(* |a/b - c/d| < 0.0001 for non-zero b, d, without forming 10000 * |ad - cb| *)
RatiosClose(a, b, c, d) ==
  Abs((a * d) - (c * b)) <= (Abs(b * d) - 1) \div 10000

(* variant of checkConstantRatio: a sequence with a zero is not refused *)
checkConstantRatioWithZeros(sequence) ==
  IF Len(sequence) < 2
  THEN [isConstant |-> FALSE, ratio |-> Null, nextValue |-> Null]
  ELSE IF \A i \in 1 .. (Len(sequence) - 1) :
             RatiosClose(sequence[i + 1], sequence[i], sequence[2], sequence[1])
       THEN [isConstant |-> TRUE,
             ratio |-> Num(RoundDiv(sequence[2], sequence[1])),
             nextValue |->
               sequence[Len(sequence)] * RoundDiv(sequence[2], sequence[1])]
       ELSE [isConstant |-> FALSE, ratio |-> Null, nextValue |-> Null]

checkConstantRatio(sequence) ==
  IF Len(sequence) < 2 \/ (\E i \in 1 .. Len(sequence) : sequence[i] = 0)
  THEN [isConstant |-> FALSE, ratio |-> Null, nextValue |-> Null]
  ELSE LET (* ratios[i] = sequence[i+1] / sequence[i], kept as a fraction *)
           allSame == \A i \in 1 .. (Len(sequence) - 1) :
                         RatiosClose(sequence[i + 1], sequence[i],
                                     sequence[2], sequence[1])
           (* Number.isInteger(Math.round(ratios[0])) holds of every finite ratio *)
           ratio == RoundDiv(sequence[2], sequence[1])
       IN IF allSame
          THEN [isConstant |-> TRUE, ratio |-> Num(ratio),
                nextValue |-> sequence[Len(sequence)] * ratio]
          ELSE [isConstant |-> FALSE, ratio |-> Null, nextValue |-> Null]

(* variant of checkAlternatingPattern: the two constants may be equal *)
checkAlternatingPatternOfEqualSteps(sequence) ==
  IF Len(sequence) < 4
  THEN [isAlternating |-> FALSE, nextValue |-> Null]
  ELSE LET differences == Differences(sequence)
       IN IF \A i \in DOMAIN differences :
               differences[i] = differences[IF (i - 1) % 2 = 0 THEN 1 ELSE 2]
          THEN [isAlternating |-> TRUE,
                nextValue |->
                  sequence[Len(sequence)]
                    + differences[IF Len(differences) % 2 = 0 THEN 1 ELSE 2]]
          ELSE [isAlternating |-> FALSE, nextValue |-> Null]

checkAlternatingPattern(sequence) ==
  IF Len(sequence) < 4
  THEN [isAlternating |-> FALSE, nextValue |-> Null]
  ELSE LET differences == Differences(sequence)
           (* 0-based index i of the source is i + 1 here *)
           evenIdx == {i \in DOMAIN differences : (i - 1) % 2 = 0}
           oddIdx == {i \in DOMAIN differences : (i - 1) % 2 = 1}
           evenAllSame == \A i \in evenIdx : differences[i] = differences[1]
           oddAllSame == \A i \in oddIdx : differences[i] = differences[2]
       IN IF evenAllSame /\ oddAllSame /\ differences[1] # differences[2]
          THEN LET nextDiffIndex == Len(differences)
                   nextDiff == IF nextDiffIndex % 2 = 0 THEN differences[1]
                                                        ELSE differences[2]
               IN [isAlternating |-> TRUE,
                   nextValue |-> sequence[Len(sequence)] + nextDiff]
          ELSE [isAlternating |-> FALSE, nextValue |-> Null]

---------------------------------------------------------------------------
(* Validator, validation.ts:19-76 and 273-425.                             *)
(* A puzzle is a record with the fields of PuzzleData that the validator   *)
(* reads: sequences, answers, primarySequenceIndex (0-based), hints,       *)
(* explanation.  A ValidationResult is [valid, errors, warnings]; threw    *)
(* marks a call that ends in a TypeError instead of returning.             *)

(* variant of Result: warnings count against valid *)
ResultCountingWarnings(errors, warnings) ==
  [threw |-> FALSE, valid |-> Len(errors) = 0 /\ Len(warnings) = 0,
   errors |-> errors, warnings |-> warnings, ran |-> <<>>]

(* ran is filled in by validatePuzzle only *)
Result(errors, warnings) ==
  [threw |-> FALSE, valid |-> Len(errors) = 0, errors |-> errors,
   warnings |-> warnings, ran |-> <<>>]

Threw ==
  [threw |-> TRUE, valid |-> FALSE, errors |-> <<>>, warnings |-> <<>>,
   ran |-> <<>>]

(* variant of OutOfBounds: the lower bound is not tested *)
OutOfBoundsAboveOnly(val) == val > Num(MAX_VALUE)

(* val < MIN_VALUE || val > MAX_VALUE *)
OutOfBounds(val) == val < Num(MIN_VALUE) \/ val > Num(MAX_VALUE)

(* the errors of terms j..seq.length of sequence i (both 1-based) *)
RECURSIVE TermErrors(_, _, _)
TermErrors(seq, i, j) ==
  IF j > Len(seq) THEN <<>>
  ELSE (IF ~IsInteger(seq[j])
        THEN <<[msg |-> "is not an integer", seq |-> i, term |-> j]>>
        ELSE <<>>)
       \o (IF OutOfBounds(seq[j])
           THEN <<[msg |-> "is out of bounds", seq |-> i, term |-> j]>>
           ELSE <<>>)
       \o TermErrors(seq, i, j + 1)

(* the errors of sequences i..sequences.length *)
RECURSIVE SequenceErrors(_, _)
SequenceErrors(sequences, i) ==
  IF i > Len(sequences) THEN <<>>
  ELSE (IF Len(sequences[i]) < MIN_SEQUENCE_LENGTH
        THEN <<[msg |-> "has fewer than 4 terms", seq |-> i, term |-> 0]>>
        ELSE <<>>)
       \o TermErrors(sequences[i], i, 1)
       \o SequenceErrors(sequences, i + 1)

(* the errors of answers i..answers.length *)
RECURSIVE AnswerErrors(_, _)
AnswerErrors(answers, i) ==
  IF i > Len(answers) THEN <<>>
  ELSE (IF ~IsInteger(answers[i])
        THEN <<[msg |-> "answer is not an integer", seq |-> i, term |-> 0]>>
        ELSE <<>>)
       \o (IF OutOfBounds(answers[i])
           THEN <<[msg |-> "answer is out of bounds", seq |-> i, term |-> 0]>>
           ELSE <<>>)
       \o AnswerErrors(answers, i + 1)

validateStructure(puzzle) ==
  LET errors ==
        (IF Len(puzzle.sequences) = 0
         THEN <<[msg |-> "No sequences provided", seq |-> 0, term |-> 0]>>
         ELSE SequenceErrors(puzzle.sequences, 1))
        \o (IF Len(puzzle.answers) # Len(puzzle.sequences)
            THEN <<[msg |-> "Answers count does not match sequences count",
                    seq |-> 0, term |-> 0]>>
            ELSE AnswerErrors(puzzle.answers, 1))
        \o (IF Len(puzzle.hints) # 2
            THEN <<[msg |-> "Exactly 2 hints are required", seq |-> 0, term |-> 0]>>
            ELSE <<>>)
        \o (IF Len(puzzle.explanation) < 10
            THEN <<[msg |-> "Explanation is too short or missing",
                    seq |-> 0, term |-> 0]>>
            ELSE <<>>)
  IN Result(errors, <<>>)

(* puzzle.sequences[puzzle.primarySequenceIndex] is defined *)
HasPrimary(puzzle) == puzzle.primarySequenceIndex + 1 \in DOMAIN puzzle.sequences

(* value === puzzle.answers[k] for the 1-based k; a missing answer is       *)
(* undefined, which no number equals                                       *)
EqualsAnswer(value, puzzle, k) ==
  /\ k \in DOMAIN puzzle.answers
  /\ puzzle.answers[k] = value

validateDifficulty(puzzle) ==
  IF ~HasPrimary(puzzle) THEN Threw
  ELSE
  LET p == puzzle.primarySequenceIndex + 1
      primarySeq == puzzle.sequences[p]
      constDiff == checkConstantDifference(primarySeq)
      constRatio == checkConstantRatio(primarySeq)
      warnings ==
        (IF constDiff.isConstant /\ EqualsAnswer(constDiff.nextValue, puzzle, p)
         THEN <<[msg |-> "Primary sequence has constant difference - may be too easy"]>>
         ELSE <<>>)
        \o (IF constRatio.isConstant /\ EqualsAnswer(constRatio.nextValue, puzzle, p)
            THEN <<[msg |-> "Primary sequence has constant ratio - may be too easy"]>>
            ELSE <<>>)
  IN Result(<<>>, warnings)

(* variant of Alternative: a rival is pushed whatever it predicts *)
AlternativeWhateverPredicted(method, applies, value, puzzle, p) ==
  IF applies
  THEN <<[method |-> method, value |-> value]>>
  ELSE <<>>

(* validation.ts:319-337: a rival that applies to the primary sequence and *)
(* predicts a value other than the stated answer is pushed                 *)
Alternative(method, applies, value, puzzle, p) ==
  IF applies /\ ~EqualsAnswer(value, puzzle, p)
  THEN <<[method |-> method, value |-> value]>>
  ELSE <<>>

QuadraticAlternative(quadFit, puzzle, p) ==
  Alternative("quadratic", FitErrorBelowHalf(quadFit), quadFit.nextValue,
              puzzle, p)

ConstantDiffAlternative(constDiff, puzzle, p) ==
  Alternative("constant_diff", constDiff.isConstant, constDiff.nextValue,
              puzzle, p)

ConstantRatioAlternative(constRatio, puzzle, p) ==
  Alternative("constant_ratio", constRatio.isConstant, constRatio.nextValue,
              puzzle, p)

AlternatingAlternative(altPattern, puzzle, p) ==
  Alternative("alternating", altPattern.isAlternating, altPattern.nextValue,
              puzzle, p)

(* validation.ts:309-337: the rivals of the primary sequence (1-based p),  *)
(* in the order they are pushed                                            *)
AlternativesOf(primarySeq, puzzle, p) ==
  QuadraticAlternative(fitQuadratic(primarySeq), puzzle, p)
  \o ConstantDiffAlternative(checkConstantDifference(primarySeq), puzzle, p)
  \o ConstantRatioAlternative(checkConstantRatio(primarySeq), puzzle, p)
  \o AlternatingAlternative(checkAlternatingPattern(primarySeq), puzzle, p)

Alternatives(puzzle) ==
  AlternativesOf(puzzle.sequences[puzzle.primarySequenceIndex + 1], puzzle,
                 puzzle.primarySequenceIndex + 1)

(* validation.ts:352-356: Math.abs(fit.nextValue - actualAnswer) > 0.5 is  *)
(* false when either side is NaN or undefined                              *)
QuadraticFits(fit, puzzle, i) ==
  ~(/\ ~fit.isNaN
    /\ i \in DOMAIN puzzle.answers
    /\ Abs(fit.nextValue - puzzle.answers[i]) > 1)

(* validation.ts:358-373: check.isConstant (isAlternating) and             *)
(* check.nextValue === actualAnswer                                        *)
CheckFits(applies, value, puzzle, i) ==
  ~(~applies \/ ~EqualsAnswer(value, puzzle, i))

ConstantFits(check, puzzle, i) ==
  CheckFits(check.isConstant, check.nextValue, puzzle, i)

AlternatingFits(check, puzzle, i) ==
  CheckFits(check.isAlternating, check.nextValue, puzzle, i)

(* validation.ts:345-374: the rival `method` reproduces the stated answer   *)
(* of sequence i (1-based); a false result is the source's                  *)
(* fitsAllSequences = false; break                                         *)
MethodFits(method, puzzle, i) ==
  CASE method = "quadratic" ->
         QuadraticFits(fitQuadratic(puzzle.sequences[i]), puzzle, i)
    [] method = "constant_diff" ->
         ConstantFits(checkConstantDifference(puzzle.sequences[i]), puzzle, i)
    [] method = "constant_ratio" ->
         ConstantFits(checkConstantRatio(puzzle.sequences[i]), puzzle, i)
    [] method = "alternating" ->
         AlternatingFits(checkAlternatingPattern(puzzle.sequences[i]), puzzle, i)

(* variant of FitsAllSequences: the flag is never cleared *)
FitsAllSequencesNeverCleared(method, puzzle) == TRUE

(* validation.ts:343-375: the loop runs over every sequence of the puzzle,  *)
(* the primary one included                                                *)
FitsAllSequences(method, puzzle) ==
  \A i \in 1 .. Len(puzzle.sequences) : MethodFits(method, puzzle, i)

(* validation.ts:339-388: the messages pushed for alternatives k..length:   *)
(* onto errors when fits is TRUE (the rival fits all sequences), onto       *)
(* warnings when fits is FALSE                                              *)
RECURSIVE AlternativeMessages(_, _, _, _, _)
AlternativeMessages(alternatives, puzzle, fits, msg, k) ==
  IF k > Len(alternatives) THEN <<>>
  ELSE (IF FitsAllSequences(alternatives[k].method, puzzle) = fits
        THEN <<[msg |-> msg, method |-> alternatives[k].method,
                value |-> alternatives[k].value]>>
        ELSE <<>>)
       \o AlternativeMessages(alternatives, puzzle, fits, msg, k + 1)

(* validation.ts:377-394 *)
AmbiguityResult(alternatives, puzzle) ==
  Result(AlternativeMessages(alternatives, puzzle, TRUE, "Ambiguous", 1),
         AlternativeMessages(alternatives, puzzle, FALSE, "Alternative", 1))

validateAmbiguity(puzzle) ==
  IF ~HasPrimary(puzzle) THEN Threw
  ELSE AmbiguityResult(Alternatives(puzzle), puzzle)

(* validation.ts:403-406: the structure result alone; ran lists the checks *)
(* in the order they were run                                              *)
StructureOnly(structureResult) ==
  [Result(structureResult.errors, structureResult.warnings)
     EXCEPT !.ran = <<"validateStructure">>]

(* validation.ts:408-424: the three results merged, or the TypeError of a  *)
(* check that threw                                                        *)
Combined(structureResult, difficultyResult, ambiguityResult) ==
  IF difficultyResult.threw \/ ambiguityResult.threw
  THEN [Threw EXCEPT !.ran = <<"validateStructure", "validateDifficulty",
                               "validateAmbiguity">>]
  ELSE [Result(structureResult.errors \o difficultyResult.errors
                 \o ambiguityResult.errors,
               structureResult.warnings \o difficultyResult.warnings
                 \o ambiguityResult.warnings)
          EXCEPT !.ran = <<"validateStructure", "validateDifficulty",
                           "validateAmbiguity">>]

(* variant of PuzzleResult: the later checks run whatever the structure    *)
(* check found                                                             *)
PuzzleResultRunsAll(puzzle, structureResult) ==
  Combined(structureResult, validateDifficulty(puzzle),
           validateAmbiguity(puzzle))

(* validation.ts:400-425 *)
PuzzleResult(puzzle, structureResult) ==
  IF structureResult.valid
  THEN Combined(structureResult, validateDifficulty(puzzle),
                validateAmbiguity(puzzle))
  ELSE StructureOnly(structureResult)

validatePuzzle(puzzle) == PuzzleResult(puzzle, validateStructure(puzzle))

---------------------------------------------------------------------------
(* Evaluator, validation.ts:432-704.  Plain integers.  A RuleProgramParams *)
(* is a record holding only the fields that are present.                   *)

RuleProgramTypes ==
  {"ARITHMETIC_SEQUENCE", "GEOMETRIC_SEQUENCE", "LINEAR_DIFF",
   "SECOND_ORDER_CONSTANT", "ALTERNATING_OPS", "ALTERNATING_PARITY",
   "POSITIONAL_FORMULA", "CUBIC_POSITIONAL", "RECURSIVE_LINEAR",
   "FIBONACCI_LIKE", "TRIBONACCI_LIKE", "DIGIT_SUM_BASED",
   "MULTIPLY_THEN_ADD", "POWER_BASED"}

(* the rule types generateSequence and generateMultipleSequences treat as  *)
(* positional, validation.ts:616-620 and 662-678                           *)
PositionalTypes == {"POSITIONAL_FORMULA", "CUBIC_POSITIONAL", "POWER_BASED"}

(* params.field ?? default *)
Get(params, field, default) ==
  IF field \in DOMAIN params THEN params[field] ELSE default

(* { ...params, field: value } *)
With(params, field, value) ==
  [f \in (DOMAIN params) \cup {field} |->
     IF f = field THEN value ELSE params[f]]

(* an optional argument: <<>> when omitted, <<v>> when given *)
None == <<>>
Some(v) == <<v>>

RECURSIVE DigitsOf(_)
DigitsOf(n) == IF n < 10 THEN n ELSE (n % 10) + DigitsOf(n \div 10)

digitSum(n) == DigitsOf(Abs(n))

(* the error thrown for a rule type outside the enumeration *)
UnknownRule == "Unknown rule type"

DefaultOperations ==
  <<[op |-> "add", value |-> 2], [op |-> "subtract", value |-> 1]>>

(* variant of evaluateNextValue in its SECOND_ORDER_CONSTANT case, the     *)
(* only one it has: the last difference is left out of the next one        *)
evaluateNextValueFromSecondDiffOnly(sequence, ruleType, params, position) ==
  CASE ruleType = "SECOND_ORDER_CONSTANT" ->
         sequence[Len(sequence)] + Get(params, "secondDifference", 2)
    [] OTHER -> UnknownRule

evaluateNextValue(sequence, ruleType, params, position) ==
  LET prev == sequence[Len(sequence)]
      prev2 == IF Len(sequence) >= 2 THEN sequence[Len(sequence) - 1] ELSE 0
      prev3 == IF Len(sequence) >= 3 THEN sequence[Len(sequence) - 2] ELSE 0
  IN CASE ruleType = "ARITHMETIC_SEQUENCE" ->
            prev + Get(params, "difference", 0)
       [] ruleType = "GEOMETRIC_SEQUENCE" ->
            prev * Get(params, "ratio", 1)
       [] ruleType = "LINEAR_DIFF" ->
            LET initialDiff == Get(params, "initialDiff", 1)
                diffIncrement == Get(params, "diffIncrement", 1)
                n == Len(sequence)
                nextDiff == initialDiff + ((n - 1) * diffIncrement)
            IN prev + nextDiff
       [] ruleType = "SECOND_ORDER_CONSTANT" ->
            LET secondDiff == Get(params, "secondDifference", 2)
            IN IF Len(sequence) < 2 THEN prev + secondDiff
               ELSE LET lastDiff == prev - prev2
                        nextDiff == lastDiff + secondDiff
                    IN prev + nextDiff
       [] ruleType = "ALTERNATING_OPS" ->
            LET operations == Get(params, "operations", DefaultOperations)
                opIndex == (Len(sequence) - 1) % Len(operations)
                operation == operations[opIndex + 1]
            IN CASE operation.op = "add" -> prev + operation.value
                 [] operation.op = "subtract" -> prev - operation.value
                 [] operation.op = "multiply" -> prev * operation.value
                 [] OTHER -> prev
       [] ruleType = "ALTERNATING_PARITY" ->
            IF position % 2 = 1
            THEN (prev * Get(params, "oddMultiplier", 1)) + Get(params, "oddAddend", 1)
            ELSE (prev * Get(params, "evenMultiplier", 1)) + Get(params, "evenAddend", 2)
       [] ruleType = "POSITIONAL_FORMULA" ->
            LET a == Get(params, "a", 0)
                b == Get(params, "b", 1)
                c == Get(params, "c", 0)
            IN (a * position * position) + (b * position) + c
       [] ruleType = "CUBIC_POSITIONAL" ->
            LET a == Get(params, "cubicA", 0)
                b == Get(params, "cubicB", 0)
                c == Get(params, "cubicC", 1)
                d == Get(params, "cubicD", 0)
            IN (a * Pow(position, 3)) + (b * Pow(position, 2)) + (c * position) + d
       [] ruleType = "RECURSIVE_LINEAR" ->
            (Get(params, "multiplier", 2) * prev) + Get(params, "addend", 0)
       [] ruleType = "FIBONACCI_LIKE" ->
            (Get(params, "prevMultiplier", 1) * prev)
              + (Get(params, "prev2Multiplier", 1) * prev2)
       [] ruleType = "TRIBONACCI_LIKE" ->
            prev + prev2 + prev3
       [] ruleType = "DIGIT_SUM_BASED" ->
            prev + ((digitSum(prev) * Get(params, "digitSumMultiplier", 1))
                    + Get(params, "digitSumAddend", 0))
       [] ruleType = "MULTIPLY_THEN_ADD" ->
            (prev * Get(params, "multiplyFactor", 2)) + Get(params, "addFactor", 1)
       [] ruleType = "POWER_BASED" ->
            LET base == Get(params, "base", 2)
                exp == Get(params, "exponent", 2)
                powerType == Get(params, "powerType", "n_squared_plus")
            IN CASE powerType = "n_to_k" -> Pow(position, exp)
                 [] powerType = "k_to_n" -> Pow(base, position)
                 [] powerType = "n_squared_plus" -> Pow(position, 2) + base
                 [] OTHER -> Pow(position, 2)
       [] OTHER -> UnknownRule

(* validation.ts:621-623 and 637-641: push evaluateNextValue at position   *)
(* sequence.length + 1 until the sequence has `length` terms               *)
RECURSIVE Extend(_, _, _, _)
Extend(sequence, ruleType, params, length) ==
  IF Len(sequence) >= length THEN sequence
  ELSE Extend(Append(sequence,
                     evaluateNextValue(sequence, ruleType, params,
                                       Len(sequence) + 1)),
              ruleType, params, length)

Min(a, b) == IF a < b THEN a ELSE b

(* variant of Generated: the answer is evaluated at position length *)
GeneratedAtLength(sequence, ruleType, params, length) ==
  [sequence |-> sequence,
   nextValue |-> evaluateNextValue(sequence, ruleType, params, length)]

(* validation.ts:624-625 and 644-646: the answer is the next value after   *)
(* the sequence                                                            *)
Generated(sequence, ruleType, params, length) ==
  [sequence |-> sequence,
   nextValue |-> evaluateNextValue(sequence, ruleType, params, length + 1)]

(* validation.ts:629-634: the first Math.min(startVals.length, length)     *)
(* starting values                                                         *)
Seeded(startVals, length) == SubSeq(startVals, 1, Min(Len(startVals), length))

generateSequence(ruleType, params, length, startingValues) ==
  IF ruleType \in PositionalTypes
  THEN Generated(Extend(<<>>, ruleType, params, length), ruleType, params,
                 length)
  ELSE Generated(Extend(Seeded(IF startingValues # None
                                THEN startingValues[1]
                                ELSE Get(params, "startingValues", <<1>>),
                               length),
                        ruleType, params, length),
                 ruleType, params, length)

(* validation.ts:667-672 and 680-685: the parameters of output index i of  *)
(* a positional rule type                                                   *)
modifiedParams(ruleType, params, i) ==
  IF ruleType = "POSITIONAL_FORMULA"
  THEN With(params, "c", Get(params, "c", 0) + (i * 3))
  ELSE IF ruleType = "CUBIC_POSITIONAL"
  THEN With(params, "cubicD", Get(params, "cubicD", 0) + (i * 5))
  ELSE IF "powerType" \in DOMAIN params /\ params.powerType = "n_squared_plus"
  THEN With(params, "base", Get(params, "base", 0) + (i * 2))
  ELSE With(params, "base", Get(params, "base", 2) + i)

(* variant of variedStart: the spread uses idx where the source has idx + 1 *)
variedStartFromSecond(baseStartValues, i) ==
  [idx \in DOMAIN baseStartValues |->
     baseStartValues[idx] + (i * (idx - 1) * 2)]

(* validation.ts:695-698: the seed of output index i *)
variedStart(baseStartValues, i) ==
  [idx \in DOMAIN baseStartValues |->
     baseStartValues[idx] + (i * ((idx - 1) + 1) * 2)]

generateMultipleSequences(ruleType, params, count, length) ==
  IF ruleType \in PositionalTypes
  THEN [k \in 1 .. count |->
          generateSequence(ruleType, modifiedParams(ruleType, params, k - 1),
                           length, None)]
  ELSE LET baseStartValues == Get(params, "startingValues", <<1>>)
       IN [k \in 1 .. count |->
             generateSequence(ruleType, params, length,
                              Some(variedStart(baseStartValues, k - 1)))]

(* variant of paramsAfterGenerateMultipleSequences: modifiedParams is the  *)
(* caller's object itself, not a copy of it                                *)
paramsAliased(ruleType, params, count) ==
  IF ruleType \in PositionalTypes
  THEN modifiedParams(ruleType, params, count - 1)
  ELSE params

(* validation.ts:667 and 680, 695: the caller's params object when         *)
(* generateMultipleSequences returns.  Every write of the function goes to *)
(* the copy { ...params } of its iteration, and map builds a new array, so *)
(* the caller's object is as it was.                                       *)
paramsAfterGenerateMultipleSequences(ruleType, params, count) == params

---------------------------------------------------------------------------
(* Generation orchestrator, src/unnamed/part_000                           *)

(* integers entering a puzzle as JavaScript numbers *)
NumSeq(seq) == [i \in DOMAIN seq |-> Num(seq[i])]

NumSeqs(seqs) == [k \in DOMAIN seqs |-> NumSeq(seqs[k])]

FallbackPuzzle(ruleType, params, sequences, answers, hints, explanation) ==
  [ruleProgramType |-> ruleType, ruleProgramParams |-> params,
   sequences |-> NumSeqs(sequences), answers |-> NumSeq(answers),
   primarySequenceIndex |-> 0, hints |-> hints, explanation |-> explanation]

FALLBACK_PUZZLES ==
  << FallbackPuzzle("SECOND_ORDER_CONSTANT",
       [secondDifference |-> 3, startingValues |-> <<2, 5>>],
       << <<2, 5, 11, 20, 32>>, <<1, 4, 10, 19, 31>>, <<3, 7, 14, 24, 37>>,
          <<0, 3, 9, 18, 30>>, <<5, 9, 16, 26, 39>> >>,
       <<47, 46, 53, 45, 55>>,
       <<"This pattern only uses addition, but the amount added changes each time.",
         "The amount you add increases by the same number each step.">>,
       "Each term adds an increasing amount. The differences are 3, 6, 9, 12, 15... (increasing by 3 each time). Next difference is 15, so 32 + 15 = 47."),
     FallbackPuzzle("FIBONACCI_LIKE",
       [prevMultiplier |-> 1, prev2Multiplier |-> 2, startingValues |-> <<1, 3>>],
       << <<1, 3, 5, 11, 21>>, <<2, 4, 8, 16, 32>>, <<1, 2, 4, 7, 13>>,
          <<3, 5, 11, 21, 43>>, <<2, 3, 7, 13, 27>> >>,
       <<43, 64, 24, 85, 53>>,
       <<"This uses addition and multiplication. Each number is calculated from the two before it.",
         "Try: current number + (2 x the number before that).">>,
       "Each term equals the previous term plus twice the term before that: next = prev + 2 x prev2. So 21 + (2 x 11) = 21 + 22 = 43."),
     FallbackPuzzle("ALTERNATING_OPS",
       [operations |-> <<[op |-> "multiply", value |-> 2],
                         [op |-> "add", value |-> 3]>>,
        startingValues |-> <<1>>],
       << <<1, 2, 5, 10, 13>>, <<2, 4, 7, 14, 17>>, <<3, 6, 9, 18, 21>>,
          <<4, 8, 11, 22, 25>>, <<5, 10, 13, 26, 29>> >>,
       <<26, 34, 42, 50, 58>>,
       <<"This uses both multiplication and addition, alternating between them.",
         "First multiply by 2, then add 3, then multiply by 2, then add 3...">>,
       "The sequence alternates: x2, +3, x2, +3... So 13 x 2 = 26."),
     FallbackPuzzle("POSITIONAL_FORMULA",
       [a |-> 1, b |-> 2, c |-> -1],
       << <<2, 7, 14, 23, 34>>, <<5, 10, 17, 26, 37>>, <<8, 13, 20, 29, 40>>,
          <<11, 16, 23, 32, 43>>, <<14, 19, 26, 35, 46>> >>,
       <<47, 50, 53, 56, 59>>,
       <<"Each term is calculated using its position (1st, 2nd, 3rd...). Uses multiplication and addition.",
         "The formula involves squaring the position number.">>,
       "The nth term equals n^2 + 2n - 1. For position 6: 36 + 12 - 1 = 47."),
     FallbackPuzzle("LINEAR_DIFF",
       [initialDiff |-> 5, diffIncrement |-> 4, startingValues |-> <<3>>],
       << <<3, 8, 17, 30, 47>>, <<1, 6, 15, 28, 45>>, <<5, 10, 19, 32, 49>>,
          <<2, 7, 16, 29, 46>>, <<7, 12, 21, 34, 51>> >>,
       <<68, 66, 70, 67, 72>>,
       <<"This only uses addition. Calculate what you add each time to get to the next number.",
         "The differences between terms are: 5, 9, 13, 17... See the pattern?">>,
       "The differences are 5, 9, 13, 17, 21 (increasing by 4 each time). Next difference is 21, so 47 + 21 = 68.") >>

(* part_000:254-262.  dateKey is the sequence of its char codes.  The hash *)
(* is a signed 32-bit integer kept as two 16-bit limbs <<hi, lo>> of its   *)
(* two's complement, so that no intermediate value leaves 32 bits:         *)
(* ((hash << 5) - hash + char) & itself is hash * 31 + char modulo 2^32.   *)
RECURSIVE HashLimbs(_, _)
HashLimbs(dateKey, n) ==
  IF n = 0 THEN <<0, 0>>
  ELSE LET h == HashLimbs(dateKey, n - 1)
           lo == (h[2] * 31) + dateKey[n]
           hi == (h[1] * 31) + (lo \div 65536)
       IN <<hi % 65536, lo % 65536>>

(* variant of AbsMod: hash % max without Math.abs, whose sign is that of   *)
(* hash                                                                    *)
AbsModWithoutAbs(h, max) ==
  IF h[1] < 32768
  THEN (((h[1] % max) * (65536 % max)) + h[2]) % max
  ELSE -(((((65536 - h[1]) % max) * (65536 % max)) - h[2]) % max)

(* Math.abs(hash) % max of the hash with limbs h *)
AbsMod(h, max) ==
  IF h[1] < 32768
  THEN (((h[1] % max) * (65536 % max)) + h[2]) % max
  ELSE (* negative: |hash| = 2^32 - (hi * 65536 + lo) *)
       ((((65536 - h[1]) % max) * (65536 % max)) - h[2]) % max

hashDateToIndex(dateKey, max) == AbsMod(HashLimbs(dateKey, Len(dateKey)), max)

needsStartingValues(ruleType) == ruleType \notin PositionalTypes

(* part_000:183-186: push variations of baseValues until there are          *)
(* NUM_SEQUENCES sets                                                       *)
RECURSIVE PadSets(_, _)
PadSets(startingValueSets, baseValues) ==
  IF Len(startingValueSets) >= NUM_SEQUENCES THEN startingValueSets
  ELSE LET variation ==
             [i \in DOMAIN baseValues |->
                baseValues[i] + ((Len(startingValueSets) + 1) * ((i - 1) + 1) * 2)]
       IN PadSets(Append(startingValueSets, variation), baseValues)

(* part_000:178-187 *)
StartingValueSets(response) ==
  LET suggested == Get(response, "suggestedStartingValues", <<>>)
  IN IF Len(suggested) < NUM_SEQUENCES
     THEN PadSets(suggested, Get(response.ruleProgramParams, "startingValues", <<1>>))
     ELSE suggested

(* buildPuzzleFromAIResponse throws: evaluateNextValue reaches its default  *)
(* case in the first generateMultipleSequences call                        *)
BuildThrows(response) == response.ruleProgramType \notin RuleProgramTypes

(* part_000:203-214: one generateMultipleSequences call of count 1 per     *)
(* starting value set                                                      *)
GeneratedWithStart(response, startingValueSets) ==
  [k \in 1 .. NUM_SEQUENCES |->
     generateMultipleSequences(
       response.ruleProgramType,
       With(response.ruleProgramParams, "startingValues", startingValueSets[k]),
       1, SEQUENCE_LENGTH)[1]]

(* part_000:216-237 *)
PuzzleOf(response, generatedSequences) ==
  [ruleProgramType |-> response.ruleProgramType,
   ruleProgramParams |-> response.ruleProgramParams,
   sequences |-> [k \in DOMAIN generatedSequences |->
                    NumSeq(generatedSequences[k].sequence)],
   answers |-> [k \in DOMAIN generatedSequences |->
                  Num(generatedSequences[k].nextValue)],
   primarySequenceIndex |-> 0,
   hints |-> response.hints,
   explanation |-> response.explanation]

buildPuzzleFromAIResponse(response) ==
  PuzzleOf(response,
           IF needsStartingValues(response.ruleProgramType)
           THEN GeneratedWithStart(response, StartingValueSets(response))
           ELSE generateMultipleSequences(response.ruleProgramType,
                                          response.ruleProgramParams,
                                          NUM_SEQUENCES, SEQUENCE_LENGTH))

---------------------------------------------------------------------------
(* State *)

VARIABLES
  (* one validator call: the puzzle handed in, the validator called last,  *)
  (* what it returned                                                      *)
  puzzle, vcall, vresult,
  (* evaluator calls of one caller: its arguments (eparams is the caller's *)
  (* parameters object) and the calls made so far with their results       *)
  ekind, eparams, elength, eseed, ecount, ecalls,
  (* one generatePuzzle invocation: its dateKey (char codes), the attempt  *)
  (* argument of the current activation, where it stands, the number of    *)
  (* generatePuzzleWithAI calls made, the kinds of failure seen, what the  *)
  (* last proposal call gave, and the value the promise resolves to        *)
  dateKey, attempt, pc, calls, failedBy, response, result,
  (* one detector call: the sequence handed in, the detector called last,  *)
  (* what it returned                                                      *)
  dseq, dcall, dresult,
  (* fallback selections of one caller: the date string (char codes) and   *)
  (* the selections made so far                                            *)
  hkey, hsel,
  (* generatePuzzle invocations running side by side, by invocation        *)
  invs,
  (* one verifySequence call: its arguments and what it returned           *)
  verSeq, verNext, verKind, verParams, verOut

valVars == <<puzzle, vcall, vresult>>
evalVars == <<ekind, eparams, elength, eseed, ecount, ecalls>>
genVars == <<dateKey, attempt, pc, calls, failedBy, response, result>>
detVars == <<dseq, dcall, dresult>>
hashVars == <<hkey, hsel>>
concVars == <<invs>>
verVars == <<verSeq, verNext, verKind, verParams, verOut>>
vars == <<valVars, evalVars, genVars, detVars, hashVars, concVars, verVars>>

(* no value yet *)
NoResult ==
  [threw |-> FALSE, valid |-> FALSE, errors |-> <<>>, warnings |-> <<>>,
   ran |-> <<>>]
NoPuzzle ==
  [sequences |-> <<>>, answers |-> <<>>, primarySequenceIndex |-> 0,
   hints |-> <<>>, explanation |-> ""]
EmptyParams == [f \in {} |-> 0]

ValIdle == puzzle = NoPuzzle /\ vcall = "none" /\ vresult = NoResult
EvalIdle ==
  /\ ekind = "ARITHMETIC_SEQUENCE" /\ eparams = EmptyParams /\ elength = 1
  /\ eseed = None /\ ecount = 1 /\ ecalls = <<>>
GenIdle ==
  /\ dateKey = <<>> /\ attempt = 0 /\ pc = "idle" /\ calls = 0
  /\ failedBy = {} /\ response = None /\ result = None
DetIdle == dseq = <<>> /\ dcall = "none" /\ dresult = NoResult
HashIdle == hkey = <<>> /\ hsel = <<>>
ConcIdle == invs = <<>>
VerIdle ==
  /\ verSeq = <<>> /\ verNext = 0 /\ verKind = "ARITHMETIC_SEQUENCE"
  /\ verParams = EmptyParams /\ verOut = None

---------------------------------------------------------------------------
(* Validator calls *)

(* bounds of the puzzles handed to the validators *)
MaxFirst == 2
MaxDiff == 2
MaxHints == 3

Hints(k) == [i \in 1 .. k |-> "hint"]

(* four-term integer sequences by first term and three differences *)
FamilySeqs ==
  {NumSeq(<<f, f + d[1], f + d[1] + d[2], f + d[1] + d[2] + d[3]>>) :
     f \in 1 .. MaxFirst, d \in [1 .. 3 -> (-1) .. MaxDiff]}

(* geometric, nearly geometric (ratio 1.5), alternating, quadratic,        *)
(* arithmetic                                                              *)
SpecialSeqs ==
  {NumSeq(<<1, 2, 4, 8>>), NumSeq(<<16, 24, 36, 54>>), NumSeq(<<1, 3, 2, 4>>),
   NumSeq(<<1, 2, 5, 10, 17>>), NumSeq(<<1, 4, 7, 10, 13>>)}

(* no alternate, or one with its stated answer: right for one rival,       *)
(* wrong, short                                                            *)
AlternateChoices ==
  {<< <<>>, <<>> >>}
    \cup {<< <<NumSeq(alt[1])>>, <<Num(alt[2])>> >> :
            alt \in {<< <<2, 4, 6, 8>>, 10 >>, << <<2, 4, 6, 8>>, 11 >>,
                     << <<1, 3, 2, 4>>, 3 >>, << <<1, 2, 4, 8>>, 16 >>,
                     << <<1, 2, 4, 7>>, 11 >>, << <<3, 5>>, 7 >>}}

(* stated answers of a primary sequence: every half step from its last     *)
(* term - 1 to its last term + MaxDiff + 1, and one far from every rival   *)
AnswersFor(seq) ==
  {seq[Len(seq)] + h : h \in (-2) .. ((2 * MaxDiff) + 2)}
    \cup {seq[Len(seq)] + Num(7)}

(* well-formed hints and explanation; every shape of rival and alternate *)
AmbInputs ==
  UNION {{[sequences |-> <<s>> \o alt[1], answers |-> <<a>> \o alt[2],
           primarySequenceIndex |-> 0, hints |-> Hints(2),
           explanation |-> "Each term follows the rule."] :
            a \in AnswersFor(s), alt \in AlternateChoices} :
         s \in FamilySeqs \cup SpecialSeqs}

(* sound; short; 1, 1.5, 2, 2.5; out of range; short, fractional and out   *)
(* of range                                                                *)
StructSeqs ==
  {NumSeq(<<1, 4, 7, 10>>), NumSeq(<<1, 2, 3>>), <<2, 3, 4, 5>>,
   NumSeq(<<1, 2, 3, 1000>>), <<-1999>>}

(* 13; 13.5; -1000 *)
StructAnswers == {Num(13), 27, Num(-1000)}

SeqsUpTo2(S) == {<<>>} \cup {<<x>> : x \in S} \cup {<<x, y>> : x \in S, y \in S}

(* every combination of structural violations *)
StructInputs ==
  {[sequences |-> ss, answers |-> as, primarySequenceIndex |-> p,
    hints |-> Hints(h), explanation |-> e] :
     ss \in SeqsUpTo2(StructSeqs), as \in SeqsUpTo2(StructAnswers),
     p \in 0 .. 1, h \in 0 .. MaxHints,
     e \in {"", "Too short", "Ten chars!"}}

PuzzleInputs == AmbInputs \cup StructInputs

InitVal ==
  /\ puzzle \in PuzzleInputs
  /\ vcall = "none"
  /\ vresult = NoResult
  /\ EvalIdle
  /\ GenIdle
  /\ DetIdle
  /\ HashIdle
  /\ ConcIdle
  /\ VerIdle

CallValidateStructure ==
  /\ vcall = "none"
  /\ vcall' = "validateStructure"
  /\ vresult' = validateStructure(puzzle)
  /\ UNCHANGED <<puzzle, evalVars, genVars, detVars, hashVars, concVars, verVars>>

CallValidateDifficulty ==
  /\ vcall = "none"
  /\ vcall' = "validateDifficulty"
  /\ vresult' = validateDifficulty(puzzle)
  /\ UNCHANGED <<puzzle, evalVars, genVars, detVars, hashVars, concVars, verVars>>

CallValidateAmbiguity ==
  /\ vcall = "none"
  /\ vcall' = "validateAmbiguity"
  /\ vresult' = validateAmbiguity(puzzle)
  /\ UNCHANGED <<puzzle, evalVars, genVars, detVars, hashVars, concVars, verVars>>

CallValidatePuzzle ==
  /\ vcall = "none"
  /\ vcall' = "validatePuzzle"
  /\ vresult' = validatePuzzle(puzzle)
  /\ UNCHANGED <<puzzle, evalVars, genVars, detVars, hashVars, concVars, verVars>>

NextVal ==
  \/ CallValidateStructure
  \/ CallValidateDifficulty
  \/ CallValidateAmbiguity
  \/ CallValidatePuzzle

SpecVal == InitVal /\ [][NextVal]_vars



---------------------------------------------------------------------------
(* Evaluator calls *)

(* bounds of the evaluator calls *)
MaxLength == 4
MaxCount == 3
MaxCalls == 3

(* the rule fields of a parameters record, per rule type; the empty record *)
(* leaves every field to its default                                       *)
KindParams(ruleType) ==
  {EmptyParams} \cup
  CASE ruleType = "ARITHMETIC_SEQUENCE" -> {[difference |-> 3], [difference |-> -2]}
    [] ruleType = "GEOMETRIC_SEQUENCE" -> {[ratio |-> 2], [ratio |-> -3]}
    [] ruleType = "LINEAR_DIFF" ->
         {[initialDiff |-> 5, diffIncrement |-> 4], [diffIncrement |-> -1]}
    [] ruleType = "SECOND_ORDER_CONSTANT" ->
         {[secondDifference |-> 3], [secondDifference |-> 0]}
    [] ruleType = "ALTERNATING_OPS" ->
         {[operations |-> <<[op |-> "multiply", value |-> 2],
                            [op |-> "add", value |-> 3]>>],
          [operations |-> <<[op |-> "subtract", value |-> 4]>>]}
    [] ruleType = "ALTERNATING_PARITY" ->
         {[oddMultiplier |-> 2, oddAddend |-> 0, evenMultiplier |-> 1,
           evenAddend |-> 3],
          [evenMultiplier |-> 3]}
    [] ruleType = "POSITIONAL_FORMULA" ->
         {[a |-> 1, b |-> 2, c |-> -1], [a |-> 2]}
    [] ruleType = "CUBIC_POSITIONAL" ->
         {[cubicA |-> 1, cubicD |-> 2], [cubicB |-> 1, cubicC |-> 0]}
    [] ruleType = "RECURSIVE_LINEAR" ->
         {[multiplier |-> 3, addend |-> 1], [addend |-> -1]}
    [] ruleType = "FIBONACCI_LIKE" ->
         {[prevMultiplier |-> 1, prev2Multiplier |-> 2], [prevMultiplier |-> 2]}
    [] ruleType = "TRIBONACCI_LIKE" -> {}
    [] ruleType = "DIGIT_SUM_BASED" ->
         {[digitSumMultiplier |-> 2, digitSumAddend |-> 1],
          [digitSumMultiplier |-> -3]}
    [] ruleType = "MULTIPLY_THEN_ADD" ->
         {[multiplyFactor |-> 3, addFactor |-> -1], [addFactor |-> 0]}
    [] ruleType = "POWER_BASED" ->
         {[powerType |-> "n_to_k", exponent |-> 3],
          [powerType |-> "k_to_n", base |-> 3],
          [powerType |-> "n_squared_plus", base |-> 1],
          [powerType |-> "n_squared_plus"],
          [base |-> 4]}

(* params.startingValues, when present: non-empty integer seeds (the       *)
(* sequence handed to evaluateNextValue holds at least one term,           *)
(* validation.ts:441)                                                      *)
ParamSeeds == {<<5>>, <<2, 5>>, <<-3, 0, 4>>}

ParamsFor(ruleType) ==
  KindParams(ruleType)
    \cup {With(p, "startingValues", s) : p \in KindParams(ruleType), s \in ParamSeeds}

(* the startingValues argument: omitted, or shorter or longer than length *)
ArgSeeds == {None, Some(<<4>>), Some(<<1, 1>>), Some(<<-1, 2, 3, 7, 9, 11>>)}

InitEval ==
  /\ ekind \in RuleProgramTypes
  /\ eparams \in ParamsFor(ekind)
  /\ elength \in 1 .. MaxLength
  /\ eseed \in ArgSeeds
  /\ ecount \in 2 .. MaxCount
  /\ ecalls = <<>>
  /\ ValIdle
  /\ GenIdle
  /\ DetIdle
  /\ HashIdle
  /\ ConcIdle
  /\ VerIdle

(* each call is recorded with the parameters it was given and its result *)
CallGenerateSequence ==
  /\ Len(ecalls) < MaxCalls
  /\ ecalls' = Append(ecalls,
                      [fn |-> "generateSequence", params |-> eparams,
                       out |-> <<generateSequence(ekind, eparams, elength,
                                                  eseed)>>])
  /\ UNCHANGED <<ekind, eparams, elength, eseed, ecount, valVars, genVars, detVars, hashVars, concVars, verVars>>

CallGenerateMultipleSequences ==
  /\ Len(ecalls) < MaxCalls
  /\ ecalls' = Append(ecalls,
                      [fn |-> "generateMultipleSequences", params |-> eparams,
                       out |-> generateMultipleSequences(ekind, eparams,
                                                         ecount, elength)])
  /\ eparams' = paramsAfterGenerateMultipleSequences(ekind, eparams, ecount)
  /\ UNCHANGED <<ekind, elength, eseed, ecount, valVars, genVars, detVars, hashVars, concVars, verVars>>

NextEval ==
  \/ CallGenerateSequence
  \/ CallGenerateMultipleSequences

SpecEval == InitEval /\ [][NextEval]_vars

---------------------------------------------------------------------------
(* generatePuzzle, part_000:127-168.  An activation of the async function  *)
(* is at its entry, awaiting generatePuzzleWithAI, or done; the tail call  *)
(* generatePuzzle(dateKey, attempt + 1) is the entry of the next           *)
(* activation, whose result is the result of the first.                    *)

(* bound of the dates *)
MaxDay == 5

(* the char codes of "2024-01-0d" *)
DateKeys == {<<50, 48, 50, 52, 45, 48, 49, 45, 48, 48 + d>> : d \in 1 .. MaxDay}

GoodHints == <<"Look at the differences.", "Two terms feed the next one.">>
GoodExplanation == "Each term follows from the terms before it."

(* what generatePuzzleWithAI resolves to: data that passed                 *)
(* PuzzleGenerationSchema, openrouter.ts:9-50                              *)
Responses ==
  {[ruleProgramType |-> "FIBONACCI_LIKE",
    ruleProgramParams |-> [prevMultiplier |-> 1, prev2Multiplier |-> 2,
                           startingValues |-> <<1, 3>>],
    hints |-> GoodHints, explanation |-> GoodExplanation],
   [ruleProgramType |-> "FIBONACCI_LIKE",
    ruleProgramParams |-> [prevMultiplier |-> 1, prev2Multiplier |-> 2,
                           startingValues |-> <<1, 3>>],
    hints |-> GoodHints, explanation |-> "Too short"],
   [ruleProgramType |-> "GEOMETRIC_SEQUENCE",
    ruleProgramParams |-> [ratio |-> 7, startingValues |-> <<3>>],
    hints |-> GoodHints, explanation |-> GoodExplanation],
   [ruleProgramType |-> "POSITIONAL_FORMULA",
    ruleProgramParams |-> [a |-> 1, b |-> 2, c |-> -1],
    hints |-> GoodHints, explanation |-> GoodExplanation],
   [ruleProgramType |-> "ARITHMETIC_SEQUENCE",
    ruleProgramParams |-> [difference |-> 3],
    hints |-> GoodHints, explanation |-> GoodExplanation,
    suggestedStartingValues |-> <<<<1>>, <<2>>, <<5>>, <<7>>, <<10>>>>],
   [ruleProgramType |-> "MULTIPLY_THEN_ADD",
    ruleProgramParams |-> [multiplyFactor |-> 2, addFactor |-> 1],
    hints |-> GoodHints, explanation |-> GoodExplanation,
    suggestedStartingValues |-> <<<<1>>, <<2>>>>],
   [ruleProgramType |-> "ARITHMETIC_SEQUENCE",
    ruleProgramParams |-> [difference |-> 4],
    hints |-> GoodHints, explanation |-> GoodExplanation,
    suggestedStartingValues |-> <<<<3>>, <<6>>, <<9>>>>]}

(* variant of AttemptsExhausted: > where the source has >= *)
AttemptsExhaustedLate(n) == n > MAX_GENERATION_ATTEMPTS

(* part_000:132 *)
AttemptsExhausted(n) == n >= MAX_GENERATION_ATTEMPTS

(* variant of OutcomeOf: validation.valid is not looked at *)
OutcomeOfWithoutValidity(validation) ==
  IF validation.threw THEN "error" ELSE "valid"

(* part_000:146-166: how the attempt ends once the proposal is there *)
OutcomeOf(validation) ==
  IF validation.threw THEN "error"
  ELSE IF ~validation.valid THEN "validation"
  ELSE "valid"

Outcome(r) ==
  IF BuildThrows(r) THEN "error"
  ELSE OutcomeOf(validatePuzzle(buildPuzzleFromAIResponse(r)))

InitGen ==
  /\ dateKey \in DateKeys
  /\ attempt = 0
  /\ pc = "entry"
  /\ calls = 0
  /\ failedBy = {}
  /\ response = None
  /\ result = None
  /\ ValIdle
  /\ EvalIdle
  /\ DetIdle
  /\ HashIdle
  /\ ConcIdle
  /\ VerIdle

(* part_000:132-139 *)
UseFallback ==
  /\ pc = "entry"
  /\ AttemptsExhausted(attempt)
  /\ result' = Some([puzzle |->
                       FALLBACK_PUZZLES[hashDateToIndex(dateKey,
                                                        Len(FALLBACK_PUZZLES)) + 1],
                     isFallback |-> TRUE])
  /\ pc' = "done"
  /\ UNCHANGED <<dateKey, attempt, calls, failedBy, response, valVars, evalVars, detVars, hashVars, concVars, verVars>>

(* part_000:143: the call of generatePuzzleWithAI *)
Propose ==
  /\ pc = "entry"
  /\ ~AttemptsExhausted(attempt)
  /\ pc' = "awaiting"
  /\ calls' = calls + 1
  /\ UNCHANGED <<dateKey, attempt, failedBy, response, result, valVars, evalVars, detVars, hashVars, concVars, verVars>>

(* variant of ProposalThrows: the retry after a throw is not counted *)
ProposalThrowsUncounted ==
  /\ pc = "awaiting"
  /\ failedBy' = failedBy \cup {"proposal"}
  /\ pc' = "entry"
  /\ UNCHANGED <<dateKey, attempt, calls, response, result, valVars, evalVars, detVars, hashVars, concVars, verVars>>

(* part_000:164-167: the proposal call rejects (transport error, no JSON,  *)
(* data the schema refuses)                                                *)
ProposalThrows ==
  /\ pc = "awaiting"
  /\ attempt' = attempt + 1
  /\ failedBy' = failedBy \cup {"proposal"}
  /\ pc' = "entry"
  /\ UNCHANGED <<dateKey, calls, response, result, valVars, evalVars, detVars, hashVars, concVars, verVars>>

(* variant of ProposalReturns: the retry after a failed attempt is given   *)
(* attempt + 2                                                             *)
ProposalReturnsSkipping ==
  /\ pc = "awaiting"
  /\ \E r \in Responses :
       /\ response' = Some(r)
       /\ IF Outcome(r) = "valid"
          THEN /\ result' = Some([puzzle |-> buildPuzzleFromAIResponse(r),
                                  isFallback |-> FALSE])
               /\ pc' = "done"
               /\ UNCHANGED <<attempt, failedBy>>
          ELSE /\ attempt' = attempt + 2
               /\ failedBy' = failedBy \cup {Outcome(r)}
               /\ pc' = "entry"
               /\ UNCHANGED result
  /\ UNCHANGED <<dateKey, calls, valVars, evalVars, detVars, hashVars, concVars, verVars>>

(* part_000:143-167: the proposal call resolves; build, validate, decide *)
ProposalReturns ==
  /\ pc = "awaiting"
  /\ \E r \in Responses :
       /\ response' = Some(r)
       /\ IF Outcome(r) = "valid"
          THEN /\ result' = Some([puzzle |-> buildPuzzleFromAIResponse(r),
                                  isFallback |-> FALSE])
               /\ pc' = "done"
               /\ UNCHANGED <<attempt, failedBy>>
          ELSE /\ attempt' = attempt + 1
               /\ failedBy' = failedBy \cup {Outcome(r)}
               /\ pc' = "entry"
               /\ UNCHANGED result
  /\ UNCHANGED <<dateKey, calls, valVars, evalVars, detVars, hashVars, concVars, verVars>>

NextGen ==
  \/ UseFallback
  \/ Propose
  \/ ProposalThrows
  \/ ProposalReturns

SpecGen == InitGen /\ [][NextGen]_vars

(* every proposal call settles, and the function runs on when it can *)
FairSpecGen == SpecGen /\ WF_vars(NextGen)

---------------------------------------------------------------------------
(* Properties of the validator, checked under SpecVal *)

Primary == puzzle.primarySequenceIndex + 1

(* the sequences of the puzzle other than the primary one *)
Alternates == (1 .. Len(puzzle.sequences)) \ {Primary}

HasErrorFor(method) ==
  \E e \in DOMAIN vresult.errors : vresult.errors[e].method = method

HasWarningFor(method) ==
  \E w \in DOMAIN vresult.warnings : vresult.warnings[w].method = method

AmbiguityReturned == vcall = "validateAmbiguity" /\ ~vresult.threw

(* C2: a rival whose prediction for the primary sequence differs from the  *)
(* stated primary answer and that reproduces the stated answer of every    *)
(* alternate sequence (of none, when the puzzle has one sequence) is       *)
(* reported by validateAmbiguity as an error.                              *)
C2_FittingRivalIsError ==
  AmbiguityReturned =>
    \A k \in DOMAIN Alternatives(puzzle) :
      (\A i \in Alternates : MethodFits(Alternatives(puzzle)[k].method, puzzle, i))
        => HasErrorFor(Alternatives(puzzle)[k].method)

(* C3: a rival whose prediction for the primary sequence differs from the  *)
(* stated primary answer and that fails to reproduce the stated answer of  *)
(* some alternate sequence gets a warning from validateAmbiguity and no    *)
(* error.                                                                  *)
C3_DisambiguatedRivalIsWarning ==
  AmbiguityReturned =>
    \A k \in DOMAIN Alternatives(puzzle) :
      (\E i \in Alternates : ~MethodFits(Alternatives(puzzle)[k].method, puzzle, i))
        => /\ HasWarningFor(Alternatives(puzzle)[k].method)
           /\ ~HasErrorFor(Alternatives(puzzle)[k].method)

(* validateAmbiguity returned for a puzzle with a rival that an alternate  *)
(* sequence refutes                                                        *)
C3_Witness ==
  /\ AmbiguityReturned
  /\ \E k \in DOMAIN Alternatives(puzzle) :
       /\ \E i \in Alternates : ~MethodFits(Alternatives(puzzle)[k].method, puzzle, i)
       /\ HasWarningFor(Alternatives(puzzle)[k].method)

(* C4: whichever validator returned, valid is true exactly when errors is  *)
(* empty, whatever the warnings are.                                       *)
C4_ValidIffNoErrors ==
  (vcall # "none" /\ ~vresult.threw) =>
    (vresult.valid <=> Len(vresult.errors) = 0)

(* a validator returned valid together with a warning *)
C4_Witness ==
  /\ vcall # "none"
  /\ ~vresult.threw
  /\ vresult.valid
  /\ Len(vresult.warnings) > 0

(* C5: validatePuzzle runs validateStructure first, and when that reports  *)
(* an error it runs nothing else: the result holds the structural errors   *)
(* and warnings and nothing more.                                          *)
C5_StopsAfterStructureFailure ==
  vcall = "validatePuzzle" =>
    /\ vresult.ran[1] = "validateStructure"
    /\ ~validateStructure(puzzle).valid =>
         /\ vresult.ran = <<"validateStructure">>
         /\ ~vresult.threw
         /\ vresult.errors = validateStructure(puzzle).errors
         /\ vresult.warnings = validateStructure(puzzle).warnings

(* validatePuzzle returned for a puzzle that fails the structure check and *)
(* on which validateDifficulty would have something to say                 *)
C5_Witness ==
  /\ vcall = "validatePuzzle"
  /\ ~validateStructure(puzzle).valid
  /\ vresult.ran = <<"validateStructure">>
  /\ \/ validateDifficulty(puzzle).threw
     \/ Len(validateDifficulty(puzzle).warnings) > 0
     \/ validateAmbiguity(puzzle).threw
     \/ Len(validateAmbiguity(puzzle).warnings) > 0

Range(seq) == {seq[i] : i \in DOMAIN seq}

(* the errors the structural conditions call for, one per violation *)
ExpectedStructureErrors ==
  {[msg |-> "has fewer than 4 terms", seq |-> i, term |-> 0] :
     i \in {i \in DOMAIN puzzle.sequences : Len(puzzle.sequences[i]) < 4}}
  \cup UNION {{[msg |-> "is not an integer", seq |-> i, term |-> j] :
                 j \in {j \in DOMAIN puzzle.sequences[i] :
                          ~IsInteger(puzzle.sequences[i][j])}} :
              i \in DOMAIN puzzle.sequences}
  \cup UNION {{[msg |-> "is out of bounds", seq |-> i, term |-> j] :
                 j \in {j \in DOMAIN puzzle.sequences[i] :
                          \/ puzzle.sequences[i][j] < Num(-999)
                          \/ puzzle.sequences[i][j] > Num(999)}} :
              i \in DOMAIN puzzle.sequences}
  \cup {[msg |-> "answer is not an integer", seq |-> i, term |-> 0] :
          i \in {i \in DOMAIN puzzle.answers : ~IsInteger(puzzle.answers[i])}}
  \cup {[msg |-> "answer is out of bounds", seq |-> i, term |-> 0] :
          i \in {i \in DOMAIN puzzle.answers :
                   \/ puzzle.answers[i] < Num(-999)
                   \/ puzzle.answers[i] > Num(999)}}
  \cup (IF Len(puzzle.answers) # Len(puzzle.sequences)
        THEN {[msg |-> "Answers count does not match sequences count",
               seq |-> 0, term |-> 0]}
        ELSE {})
  \cup (IF Len(puzzle.hints) # 2
        THEN {[msg |-> "Exactly 2 hints are required", seq |-> 0, term |-> 0]}
        ELSE {})
  \cup (IF Len(puzzle.explanation) < 10
        THEN {[msg |-> "Explanation is too short or missing",
               seq |-> 0, term |-> 0]}
        ELSE {})

(* C6: validateStructure collects every violation: each violated           *)
(* structural condition has its own error in the returned list, whatever   *)
(* else is violated.                                                       *)
C6_AllViolationsCollected ==
  vcall = "validateStructure" =>
    ExpectedStructureErrors \subseteq Range(vresult.errors)

(* the structural conditions: at least one sequence, every sequence of at  *)
(* least 4 terms, every term and answer an integer in [-999, 999], as many *)
(* answers as sequences, exactly 2 hints, an explanation of at least 10    *)
(* characters                                                              *)
StructurallySound ==
  /\ Len(puzzle.sequences) >= 1
  /\ \A i \in DOMAIN puzzle.sequences :
       /\ Len(puzzle.sequences[i]) >= 4
       /\ \A j \in DOMAIN puzzle.sequences[i] :
            /\ IsInteger(puzzle.sequences[i][j])
            /\ puzzle.sequences[i][j] >= Num(-999)
            /\ puzzle.sequences[i][j] <= Num(999)
  /\ Len(puzzle.answers) = Len(puzzle.sequences)
  /\ \A i \in DOMAIN puzzle.answers :
       /\ IsInteger(puzzle.answers[i])
       /\ puzzle.answers[i] >= Num(-999)
       /\ puzzle.answers[i] <= Num(999)
  /\ Len(puzzle.hints) = 2
  /\ Len(puzzle.explanation) >= 10

(* C7: validateStructure returns valid = true exactly when every           *)
(* structural condition holds.                                             *)
C7_ValidIffStructurallySound ==
  vcall = "validateStructure" => (vresult.valid <=> StructurallySound)

(* validateStructure accepted a puzzle of two sequences *)
C7_Witness ==
  /\ vcall = "validateStructure"
  /\ vresult.valid
  /\ Len(puzzle.sequences) = 2

---------------------------------------------------------------------------
(* Properties of the evaluator, checked under SpecEval *)

(* C8: the nextValue returned by generateSequence is evaluateNextValue     *)
(* applied to the returned sequence at position length + 1, under the same *)
(* rule type and parameters.                                               *)
C8_NextValueContinuesSequence ==
  \A k \in DOMAIN ecalls :
    ecalls[k].fn = "generateSequence" =>
      ecalls[k].out[1].nextValue =
        evaluateNextValue(ecalls[k].out[1].sequence, ekind, ecalls[k].params,
                          elength + 1)

(* generateSequence returned for a rule type whose formula reads the       *)
(* position, at a length of at least 2                                     *)
C8_Witness ==
  /\ elength >= 2
  /\ ekind \in PositionalTypes \cup {"ALTERNATING_PARITY"}
  /\ \E k \in DOMAIN ecalls :
       /\ ecalls[k].fn = "generateSequence"
       /\ Len(ecalls[k].out[1].sequence) = elength

C10_FirstElementsDiffer ==
  \A k \in DOMAIN ecalls :
    (ecalls[k].fn = "generateMultipleSequences" /\ ekind \notin PositionalTypes) =>
      \A a, b \in DOMAIN ecalls[k].out :
        a # b => ecalls[k].out[a].sequence[1] # ecalls[k].out[b].sequence[1]

(* generateMultipleSequences returned three sequences of a rule type that  *)
(* is not positional                                                       *)
C10_Witness ==
  /\ ekind \notin PositionalTypes
  /\ \E k \in DOMAIN ecalls :
       /\ ecalls[k].fn = "generateMultipleSequences"
       /\ Len(ecalls[k].out) >= 3
       /\ ecalls[k].out[1].sequence[1] # ecalls[k].out[3].sequence[1]

---------------------------------------------------------------------------
(* Properties of generatePuzzle, checked under FairSpecGen *)

TheFallback ==
  FALLBACK_PUZZLES[hashDateToIndex(dateKey, Len(FALLBACK_PUZZLES)) + 1]

(* every call of generatePuzzleWithAI made so far has failed: it threw, or *)
(* the puzzle built from what it returned did not validate                 *)
EveryProposalFailed == attempt = calls

(* C1: generatePuzzle started at attempt 0 ends; it never makes more than  *)
(* MAX_GENERATION_ATTEMPTS proposal calls; and when every proposal call    *)
(* failed it ends after exactly that many with the fallback puzzle of its  *)
(* date and isFallback = true.                                             *)
C1_EndsWithFallback ==
  /\ [](calls <= MAX_GENERATION_ATTEMPTS)
  /\ []((pc = "done" /\ EveryProposalFailed) =>
          /\ calls = MAX_GENERATION_ATTEMPTS
          /\ result = Some([puzzle |-> TheFallback, isFallback |-> TRUE]))
  /\ <>(pc = "done")

(* generatePuzzle ended with the fallback after proposal calls that threw  *)
(* and proposal calls whose puzzle failed validation                       *)
C1_Witness ==
  /\ pc = "done"
  /\ EveryProposalFailed
  /\ calls = MAX_GENERATION_ATTEMPTS
  /\ failedBy = {"proposal", "validation"}
  /\ result # None
  /\ result[1].isFallback

---------------------------------------------------------------------------
(* More properties of the evaluator, checked under SpecEval *)

(* C11: for every rule type, the three power types included, the sequences *)
(* returned by generateMultipleSequences with count >= 2 and length >= 1   *)
(* are pairwise different.                                                 *)
C11_NoTwoIdentical ==
  \A k \in DOMAIN ecalls :
    ecalls[k].fn = "generateMultipleSequences" =>
      \A a, b \in DOMAIN ecalls[k].out :
        a # b => ecalls[k].out[a].sequence # ecalls[k].out[b].sequence

---------------------------------------------------------------------------
(* Fallback selection, part_000:134-138 and 254-262 *)

(* bound of the selections made for one date string *)
MaxSelections == 2

(* the char code of a decimal digit *)
Digit(n) == 48 + n

(* format(date, 'yyyy-MM-dd') as char codes; 45 is '-' *)
DateKeyOf(year, month, day) ==
  <<Digit(year \div 1000), Digit((year \div 100) % 10),
    Digit((year \div 10) % 10), Digit(year % 10), 45,
    Digit(month \div 10), Digit(month % 10), 45,
    Digit(day \div 10), Digit(day % 10)>>

(* strings that are not dates: the empty string, "GydZG_" and             *)
(* "polygenelubricants", whose hash is -2^31                               *)
OddKeys ==
  {<<>>, <<71, 121, 100, 90, 71, 95>>,
   <<112, 111, 108, 121, 103, 101, 110, 101, 108, 117, 98, 114, 105, 99,
     97, 110, 116, 115>>}

(* dates whose hash is negative (2023, 2024) and positive (2025, 2026) *)
HashKeys ==
  {DateKeyOf(y, m, d) : y \in 2023 .. 2026, m \in {1, 12}, d \in 1 .. MaxDay}
    \cup OddKeys

(* an array read outside the array *)
Undefined == "undefined"

(* part_000:134-138: the fallback of a date *)
Selection(fallbackIndex) ==
  [index |-> fallbackIndex,
   puzzle |-> IF fallbackIndex + 1 \in DOMAIN FALLBACK_PUZZLES
              THEN FALLBACK_PUZZLES[fallbackIndex + 1]
              ELSE Undefined]

InitHash ==
  /\ hkey \in HashKeys
  /\ hsel = <<>>
  /\ ValIdle
  /\ EvalIdle
  /\ GenIdle
  /\ DetIdle
  /\ ConcIdle
  /\ VerIdle

SelectFallback ==
  /\ Len(hsel) < MaxSelections
  /\ hsel' = Append(hsel,
                    Selection(hashDateToIndex(hkey, Len(FALLBACK_PUZZLES))))
  /\ UNCHANGED <<hkey, valVars, evalVars, genVars, detVars, concVars, verVars>>

NextHash == SelectFallback

SpecHash == InitHash /\ [][NextHash]_vars

---------------------------------------------------------------------------
(* Properties of the fallback selection, checked under SpecHash *)

(* hash * 31 + char wrapped to a signed 32-bit integer, for a signed       *)
(* 32-bit hash: the product is formed on the two halves of hash            *)
WrapStep(hash, char) ==
  LET low == (31 * (hash % 65536)) + char
      high == ((31 * (hash \div 65536)) + (low \div 65536)) % 65536
  IN ((IF high >= 32768 THEN high - 65536 ELSE high) * 65536) + (low % 65536)

(* the rolling hash of the first n characters *)
RECURSIVE RollingHash(_, _)
RollingHash(key, n) ==
  IF n = 0 THEN 0 ELSE WrapStep(RollingHash(key, n - 1), key[n])

(* |hash| modulo size, without forming |hash| *)
AbsoluteModulo(hash, size) ==
  IF hash >= 0 THEN hash % size ELSE (size - (hash % size)) % size

(* C12: every fallback selection for a date string picks the catalog index *)
(* |hash| mod 5, where hash is the rolling hash (hash * 31 + charCode,     *)
(* wrapped to signed 32 bits after every character): the index lies in     *)
(* 0 .. 4 also when the hash is negative or -2^31, and repeated selections *)
(* for the same date string pick the same entry.                           *)
C12_FallbackIndexFromDate ==
  \A k \in DOMAIN hsel :
    /\ hsel[k].index \in 0 .. 4
    /\ hsel[k].index = AbsoluteModulo(RollingHash(hkey, Len(hkey)), 5)
    /\ hsel[k].puzzle = FALLBACK_PUZZLES[hsel[k].index + 1]
    /\ hsel[k] = hsel[1]

(* two selections were made for a string whose hash is -2^31 *)
C12_Witness ==
  /\ Len(hsel) = 2
  /\ RollingHash(hkey, Len(hkey)) = (-2147483647) - 1
  /\ hsel[1].index = hsel[2].index

---------------------------------------------------------------------------
(* generatePuzzle on a proposal whose rule type has no case in             *)
(* evaluateNextValue.  PuzzleGenerationSchema refuses such data today; the  *)
(* casts `ruleProgramType as RuleProgramType` of part_000:191-229 are what  *)
(* admits it once the schema and the evaluator disagree.                   *)

UnknownRuleResponses ==
  {[ruleProgramType |-> "CORRUPTED",
    ruleProgramParams |-> [difference |-> 3, startingValues |-> <<1>>],
    hints |-> GoodHints, explanation |-> GoodExplanation]}

(* part_000:146 and 164-167: buildPuzzleFromAIResponse throws "Unknown rule *)
(* type" out of evaluateNextValue (validation.ts:594-596); the catch block  *)
(* logs it and retries                                                     *)
ProposalReturnsUnknownRule ==
  /\ pc = "awaiting"
  /\ \E r \in UnknownRuleResponses :
       /\ BuildThrows(r)
       /\ response' = Some(r)
  /\ attempt' = attempt + 1
  /\ failedBy' = failedBy \cup {UnknownRule}
  /\ pc' = "entry"
  /\ UNCHANGED <<dateKey, calls, result, valVars, evalVars, detVars, hashVars, concVars, verVars>>

NextGenUnknownRule ==
  \/ UseFallback
  \/ Propose
  \/ ProposalThrows
  \/ ProposalReturns
  \/ ProposalReturnsUnknownRule

SpecGenUnknownRule == InitGen /\ [][NextGenUnknownRule]_vars

---------------------------------------------------------------------------
(* More properties of generatePuzzle, checked under SpecGen *)

(* C14: every step that ends an attempt without a result, whether the      *)
(* proposal call threw or the puzzle built from its answer failed          *)
(* validation, does the same: attempt grows by exactly 1 and control is    *)
(* back at the entry, from where the next proposal is asked for; nothing   *)
(* else of the invocation changes.                                         *)
C14_FailuresRetryAlike ==
  [][(pc = "awaiting" /\ pc' # "done") =>
       /\ pc' = "entry"
       /\ attempt' = attempt + 1
       /\ UNCHANGED <<dateKey, calls, result>>]_vars

(* an invocation back at its entry after one proposal call that threw and  *)
(* one whose puzzle failed validation                                      *)
C14_Witness ==
  /\ pc = "entry"
  /\ failedBy = {"proposal", "validation"}
  /\ attempt = 2
  /\ calls = 2

(* C15: generatePuzzle returns isFallback = false only with the puzzle     *)
(* built in the same attempt from the proposal just received, for which    *)
(* validatePuzzle returned valid = true; it returns isFallback = true only *)
(* when attempt has reached MAX_GENERATION_ATTEMPTS, and then the puzzle   *)
(* is an entry of FALLBACK_PUZZLES.                                        *)
C15_ResultsAreJustified ==
  /\ pc = "done" <=> result # None
  /\ pc = "done" =>
       IF result[1].isFallback
       THEN /\ attempt >= MAX_GENERATION_ATTEMPTS
            /\ result[1].puzzle \in Range(FALLBACK_PUZZLES)
       ELSE /\ attempt < MAX_GENERATION_ATTEMPTS
            /\ response # None
            /\ ~BuildThrows(response[1])
            /\ result[1].puzzle = buildPuzzleFromAIResponse(response[1])
            /\ validatePuzzle(result[1].puzzle).valid

(* generatePuzzle returned a validated puzzle after attempts that failed,  *)
(* one of them at validation                                               *)
C15_Witness ==
  /\ pc = "done"
  /\ result # None
  /\ ~result[1].isFallback
  /\ "validation" \in failedBy
  /\ attempt >= 2
  /\ validatePuzzle(result[1].puzzle).valid

---------------------------------------------------------------------------
(* generatePuzzle invocations for distinct dates running side by side,     *)
(* part_000:127-168.  Each invocation has its own dateKey and attempt      *)
(* (parameters of the async function) and is suspended only at             *)
(* await generatePuzzleWithAI(); the module holds no variable besides the  *)
(* constants.  failed counts the invocation's own failed proposals.        *)

(* a proposal that validates and one that does not *)
ConcResponses ==
  {r \in Responses :
     /\ r.ruleProgramType = "FIBONACCI_LIKE"}

Invocation(d) ==
  [dateKey |-> d, attempt |-> 0, pc |-> "entry", failed |-> 0, result |-> None]

(* variant of Retried: the attempt counter is one variable of the module,  *)
(* shared by the invocations                                               *)
RetriedSharingAttempt(i) ==
  [j \in DOMAIN invs |->
     IF j = i
     THEN [invs[j] EXCEPT !.attempt = @ + 1, !.failed = @ + 1, !.pc = "entry"]
     ELSE [invs[j] EXCEPT !.attempt = @ + 1]]

(* part_000:156 and 166: return generatePuzzle(dateKey, attempt + 1) in     *)
(* invocation i                                                            *)
Retried(i) ==
  [invs EXCEPT ![i].attempt = @ + 1, ![i].failed = @ + 1, ![i].pc = "entry"]

InitConc ==
  /\ invs \in {<<Invocation(d1), Invocation(d2)>> :
                 d1 \in DateKeys, d2 \in DateKeys}
  (* a day and the day after it *)
  /\ invs[1].dateKey # invs[2].dateKey
  /\ invs[2].dateKey[10] = invs[1].dateKey[10] + 1
  /\ ValIdle
  /\ EvalIdle
  /\ GenIdle
  /\ DetIdle
  /\ HashIdle
  /\ VerIdle

(* part_000:132-139 *)
ConcUseFallback ==
  \E i \in DOMAIN invs :
    /\ invs[i].pc = "entry"
    /\ AttemptsExhausted(invs[i].attempt)
    /\ invs' = [invs EXCEPT
                  ![i].result =
                    Some([puzzle |->
                            FALLBACK_PUZZLES[hashDateToIndex(invs[i].dateKey,
                                               Len(FALLBACK_PUZZLES)) + 1],
                          isFallback |-> TRUE]),
                  ![i].pc = "done"]
    /\ UNCHANGED <<valVars, evalVars, genVars, detVars, hashVars, verVars>>

(* part_000:143 *)
ConcPropose ==
  \E i \in DOMAIN invs :
    /\ invs[i].pc = "entry"
    /\ ~AttemptsExhausted(invs[i].attempt)
    /\ invs' = [invs EXCEPT ![i].pc = "awaiting"]
    /\ UNCHANGED <<valVars, evalVars, genVars, detVars, hashVars, verVars>>

(* part_000:164-167 *)
ConcProposalThrows ==
  \E i \in DOMAIN invs :
    /\ invs[i].pc = "awaiting"
    /\ invs' = Retried(i)
    /\ UNCHANGED <<valVars, evalVars, genVars, detVars, hashVars, verVars>>

(* part_000:143-167 *)
ConcProposalReturns ==
  \E i \in DOMAIN invs :
    /\ invs[i].pc = "awaiting"
    /\ \E r \in ConcResponses :
         invs' = IF Outcome(r) = "valid"
                 THEN [invs EXCEPT
                         ![i].result =
                           Some([puzzle |-> buildPuzzleFromAIResponse(r),
                                 isFallback |-> FALSE]),
                         ![i].pc = "done"]
                 ELSE Retried(i)
    /\ UNCHANGED <<valVars, evalVars, genVars, detVars, hashVars, verVars>>

NextConc ==
  \/ ConcUseFallback
  \/ ConcPropose
  \/ ConcProposalThrows
  \/ ConcProposalReturns

SpecConc == InitConc /\ [][NextConc]_vars

---------------------------------------------------------------------------
(* Properties of interleaved invocations, checked under SpecConc *)

FallbackOf(key) == FALLBACK_PUZZLES[hashDateToIndex(key, Len(FALLBACK_PUZZLES)) + 1]

(* C16: with generatePuzzle invocations for distinct dates interleaved,    *)
(* a step of one invocation leaves every other invocation as it was; each  *)
(* invocation's attempt is the number of its own failed proposals, a       *)
(* fallback result comes only after MAX_GENERATION_ATTEMPTS failures of    *)
(* its own and is the fallback of its own date, and any other result comes *)
(* before its own budget is used up.                                       *)
C16_InvocationsAreIndependent ==
  /\ [][\A i \in DOMAIN invs :
          invs'[i] # invs[i] =>
            \A j \in DOMAIN invs \ {i} : invs'[j] = invs[j]]_vars
  /\ [](\A i \in DOMAIN invs :
          /\ invs[i].attempt = invs[i].failed
          /\ invs[i].pc = "done" =>
               IF invs[i].result[1].isFallback
               THEN /\ invs[i].failed = MAX_GENERATION_ATTEMPTS
                    /\ invs[i].result[1].puzzle = FallbackOf(invs[i].dateKey)
               ELSE invs[i].failed < MAX_GENERATION_ATTEMPTS)

(* one invocation has ended with its fallback while the other, suspended   *)
(* at its proposal call, has failed only once                              *)
C16_Witness ==
  /\ invs # <<>>
  /\ invs[1].pc = "done"
  /\ invs[1].result[1].isFallback
  /\ invs[2].pc = "awaiting"
  /\ invs[2].attempt = 1
  /\ invs[2].failed = 1

(* the integers of a sequence of JavaScript numbers *)
IntSeq(seq) == [i \in DOMAIN seq |-> seq[i] \div 2]

(* the number of leading terms that are seeds, not computed: the starting  *)
(* values of a rule type that is not positional                            *)
SeedCount(p) ==
  IF p.ruleProgramType \in PositionalTypes THEN 0
  ELSE Len(Get(p.ruleProgramParams, "startingValues", <<1>>))

(* sequence i of puzzle p and its answer follow the puzzle's rule type and *)
(* parameters                                                              *)
FollowsOwnRule(p, i) ==
  /\ \A n \in (SeedCount(p) + 1) .. Len(p.sequences[i]) :
       IntSeq(p.sequences[i])[n] =
         evaluateNextValue(SubSeq(IntSeq(p.sequences[i]), 1, n - 1),
                           p.ruleProgramType, p.ruleProgramParams, n)
  /\ IntSeq(p.answers)[i] =
       evaluateNextValue(IntSeq(p.sequences[i]), p.ruleProgramType,
                         p.ruleProgramParams, Len(p.sequences[i]) + 1)

(* C17: every puzzle of the fallback catalog that a selection returns      *)
(* follows its own rule: in each of its sequences every term after the     *)
(* seed terms is evaluateNextValue of the terms before it, and the answer  *)
(* is evaluateNextValue of the sequence at position 6.                     *)
C17_FallbacksFollowOwnRule ==
  \A k \in DOMAIN hsel :
    \A i \in DOMAIN hsel[k].puzzle.sequences :
      FollowsOwnRule(hsel[k].puzzle, i)

---------------------------------------------------------------------------
(* Detector calls, validation.ts:82-268 *)

(* bounds of the sequences handed to the detectors *)
MaxCoef == 2
MaxTerms == 5

(* the terms a*n*n + b*n + c at the positions n = 1 .. len *)
QuadraticSeq(a, b, c, len) ==
  [n \in 1 .. len |-> Num((a * n * n) + (b * n) + c)]

(* the terms first * r^(n-1) *)
GeometricSeq(first, r, len) == [n \in 1 .. len |-> Num(first * Pow(r, n - 1))]

(* quadratic and linear (a = 0) and constant (a = b = 0) sequences *)
QuadraticInputs ==
  {QuadraticSeq(a, b, c, len) :
     a \in (-MaxCoef) .. MaxCoef, b \in (-MaxCoef) .. MaxCoef,
     c \in (-MaxCoef) .. MaxCoef, len \in 1 .. MaxTerms}

GeometricInputs ==
  {GeometricSeq(first, r, len) :
     first \in {1, 2, -3}, r \in (-MaxCoef - 1) .. (MaxCoef + 1),
     len \in 2 .. (MaxTerms - 1)}

(* empty; a zero first, inside, last; steps of one half; ratio 1.5; ratios *)
(* 2.0001 and 2; cubes; doubling; alternating; steps of 3; +3, -1 over     *)
(* five terms, with a last step off, over three terms; -3, +4 with the     *)
(* last step off                                                           *)
OtherInputs ==
  {<<>>, NumSeq(<<0, 5>>), NumSeq(<<1, 0, 3>>), NumSeq(<<4, 0>>),
   NumSeq(<<0, 0, 0>>), <<2, 3, 4, 5>>, NumSeq(<<16, 24, 36, 54>>),
   NumSeq(<<10000, 20001, 40002>>), NumSeq(<<1, 8, 27, 64>>),
   NumSeq(<<1, 2, 4, 8, 16>>), NumSeq(<<1, 3, 2, 4>>),
   NumSeq(<<1, 4, 7, 10, 13>>), NumSeq(<<1, 4, 3, 6, 5>>),
   NumSeq(<<1, 4, 3, 6, 4>>), NumSeq(<<1, 4, 3>>), NumSeq(<<5, 2, 6, 3, 8>>)}

DetectorInputs == QuadraticInputs \cup GeometricInputs \cup OtherInputs

InitDet ==
  /\ dseq \in DetectorInputs
  /\ dcall = "none"
  /\ dresult = NoResult
  /\ ValIdle
  /\ EvalIdle
  /\ GenIdle
  /\ HashIdle
  /\ ConcIdle
  /\ VerIdle

CallFitQuadratic ==
  /\ dcall = "none"
  /\ dcall' = "fitQuadratic"
  /\ dresult' = fitQuadratic(dseq)
  /\ UNCHANGED <<dseq, valVars, evalVars, genVars, hashVars, concVars, verVars>>

CallCheckConstantDifference ==
  /\ dcall = "none"
  /\ dcall' = "checkConstantDifference"
  /\ dresult' = checkConstantDifference(dseq)
  /\ UNCHANGED <<dseq, valVars, evalVars, genVars, hashVars, concVars, verVars>>

CallCheckConstantRatio ==
  /\ dcall = "none"
  /\ dcall' = "checkConstantRatio"
  /\ dresult' = checkConstantRatio(dseq)
  /\ UNCHANGED <<dseq, valVars, evalVars, genVars, hashVars, concVars, verVars>>

CallCheckAlternatingPattern ==
  /\ dcall = "none"
  /\ dcall' = "checkAlternatingPattern"
  /\ dresult' = checkAlternatingPattern(dseq)
  /\ UNCHANGED <<dseq, valVars, evalVars, genVars, hashVars, concVars, verVars>>

NextDet ==
  \/ CallFitQuadratic
  \/ CallCheckConstantDifference
  \/ CallCheckConstantRatio
  \/ CallCheckAlternatingPattern

SpecDet == InitDet /\ [][NextDet]_vars

---------------------------------------------------------------------------
(* Properties of the detectors, checked under SpecDet *)

Coefficients == (-MaxCoef) .. MaxCoef

(* C18: for a sequence of at least 3 terms whose term at every 1-indexed   *)
(* position n is a*n^2 + b*n + c for integers a, b, c (a may be 0),        *)
(* fitQuadratic in exact arithmetic returns the coefficients [a, b, c],    *)
(* the mean fit error 0 and nextValue = a*(L+1)^2 + b*(L+1) + c.           *)
C18_ExactQuadraticRecovered ==
  dcall = "fitQuadratic" =>
    \A a, b, c \in Coefficients :
      (Len(dseq) >= 3 /\ dseq = QuadraticSeq(a, b, c, Len(dseq))) =>
        /\ ~dresult.singular
        /\ dresult.det # 0
        /\ dresult.detA = Num(a) * dresult.det
        /\ dresult.detB = Num(b) * dresult.det
        /\ dresult.detC = Num(c) * dresult.det
        /\ dresult.errorSum = 0
        /\ dresult.nextValue =
             Num((a * (Len(dseq) + 1) * (Len(dseq) + 1))
                 + (b * (Len(dseq) + 1)) + c)

(* fitQuadratic returned 36 for 1, 4, 9, 16, 25 *)
C18_Witness ==
  /\ dcall = "fitQuadratic"
  /\ dseq = NumSeq(<<1, 4, 9, 16, 25>>)
  /\ dresult.nextValue = Num(36)
  /\ dresult.errorSum = 0

(* C19: checkConstantDifference returns isConstant = true exactly when the *)
(* sequence has at least 2 terms and all consecutive differences are       *)
(* equal; then difference is the common difference and nextValue is the    *)
(* last term plus it; otherwise difference and nextValue are null.         *)
C19_ConstantDifferenceExact ==
  dcall = "checkConstantDifference" =>
    /\ dresult.isConstant <=>
         /\ Len(dseq) >= 2
         /\ \A i \in 2 .. (Len(dseq) - 1) :
              dseq[i + 1] - dseq[i] = dseq[i] - dseq[i - 1]
    /\ IF dresult.isConstant
       THEN /\ dresult.difference = dseq[2] - dseq[1]
            /\ dresult.nextValue = dseq[Len(dseq)] + (dseq[2] - dseq[1])
       ELSE /\ dresult.difference = Null
            /\ dresult.nextValue = Null

(* checkConstantDifference found the difference 3 and the next value 16 in *)
(* a five-term sequence                                                    *)
C19_Witness ==
  /\ dcall = "checkConstantDifference"
  /\ Len(dseq) = 5
  /\ dresult.isConstant
  /\ dresult.difference = Num(3)
  /\ dresult.nextValue = Num(16)

(* C20: checkConstantRatio returns isConstant = false for every sequence   *)
(* with a 0 in it or with fewer than 2 terms; for a sequence without a 0   *)
(* in which every term is the one before it times one integer r, it        *)
(* returns isConstant = true, ratio = r and nextValue = last term * r.     *)
C20_ConstantRatioOfGeometric ==
  dcall = "checkConstantRatio" =>
    /\ (Len(dseq) < 2 \/ \E i \in DOMAIN dseq : dseq[i] = 0) =>
         ~dresult.isConstant
    /\ \A r \in (-MaxCoef - 1) .. (MaxCoef + 1) :
         (/\ Len(dseq) >= 2
          /\ \A i \in DOMAIN dseq : dseq[i] # 0
          /\ \A i \in 1 .. (Len(dseq) - 1) : dseq[i + 1] = dseq[i] * r) =>
           /\ dresult.isConstant
           /\ dresult.ratio = Num(r)
           /\ dresult.nextValue = dseq[Len(dseq)] * r

(* checkConstantRatio found a negative ratio in a sequence of four terms *)
C20_Witness ==
  /\ dcall = "checkConstantRatio"
  /\ Len(dseq) = 4
  /\ dresult.isConstant
  /\ dresult.ratio = Num(-3)
  /\ dresult.nextValue = dseq[4] * (-3)

---------------------------------------------------------------------------
(* The attempt counter of generatePuzzle, checked under SpecGen *)

(* the proposal calls an invocation has made when it stands where it does: *)
(* one per attempt begun                                                   *)
AttemptsBegun ==
  IF pc = "awaiting" \/ (pc = "done" /\ ~result[1].isFallback)
  THEN attempt + 1
  ELSE attempt

(* C21: within one generatePuzzle invocation started at attempt 0, attempt *)
(* never decreases and grows by exactly 1, and only when an attempt fails; *)
(* it never exceeds MAX_GENERATION_ATTEMPTS; generatePuzzleWithAI is       *)
(* called exactly once per attempt, so at most MAX_GENERATION_ATTEMPTS     *)
(* times, and never once the fallback has been selected.                   *)
C21_AttemptCounterBounded ==
  /\ [](/\ attempt \in 0 .. MAX_GENERATION_ATTEMPTS
        /\ calls = AttemptsBegun
        /\ calls <= MAX_GENERATION_ATTEMPTS)
  /\ [][\/ attempt' = attempt
        \/ /\ attempt' = attempt + 1
           /\ pc = "awaiting"
           /\ pc' = "entry"
           /\ failedBy' # {}]_vars
  /\ [][calls' # calls =>
          /\ calls' = calls + 1
          /\ attempt' = attempt
          /\ attempt < MAX_GENERATION_ATTEMPTS
          /\ result = None]_vars
  /\ [][(result # None /\ result[1].isFallback) => calls' = calls]_vars

(* the last attempt allowed has failed: the counter stands at              *)
(* MAX_GENERATION_ATTEMPTS after as many proposal calls, before the        *)
(* fallback is selected                                                    *)
C21_Witness ==
  /\ pc = "entry"
  /\ attempt = MAX_GENERATION_ATTEMPTS
  /\ calls = MAX_GENERATION_ATTEMPTS
  /\ result = None

---------------------------------------------------------------------------
(* The expand step of buildPuzzleFromAIResponse, checked under SpecGen *)

(* the suggested starting value sets of a response *)
Suggested(r) == Get(r, "suggestedStartingValues", <<>>)

(* the base startingValues of a response *)
BaseValues(r) == Get(r.ruleProgramParams, "startingValues", <<1>>)

(* the puzzle createPuzzleFromRule builds from the rule of a response:     *)
(* generateMultipleSequences(kind, params, NUM_SEQUENCES, SEQUENCE_LENGTH) *)
SpreadPuzzle(r) ==
  PuzzleOf(r, generateMultipleSequences(r.ruleProgramType, r.ruleProgramParams,
                                        NUM_SEQUENCES, SEQUENCE_LENGTH))

(* C22: for a rule type that needs starting values, every seed set the     *)
(* expand step derives (fewer than NUM_SEQUENCES sets were suggested) is   *)
(* the one generateMultipleSequences uses for the same output index i:     *)
(* base startingValues with v at index idx replaced by v + i*(idx+1)*2;    *)
(* so with no suggested sets the built puzzle has the sequences and        *)
(* answers of generateMultipleSequences(kind, params, 5, 5).               *)
C22_PaddingFollowsSeedSpread ==
  (response # None /\ ~BuildThrows(response[1])
     /\ needsStartingValues(response[1].ruleProgramType)) =>
    LET r == response[1]
    IN /\ \A k \in (Len(Suggested(r)) + 1) .. NUM_SEQUENCES :
            StartingValueSets(r)[k] = variedStart(BaseValues(r), k - 1)
       /\ Suggested(r) = <<>> =>
            /\ buildPuzzleFromAIResponse(r).sequences = SpreadPuzzle(r).sequences
            /\ buildPuzzleFromAIResponse(r).answers = SpreadPuzzle(r).answers

---------------------------------------------------------------------------
(* The second-order rule, checked under SpecEval *)

(* the seed generateSequence starts from: the startingValues argument,     *)
(* else params.startingValues, else [1]                                    *)
SeedOf(call) ==
  IF eseed # None THEN eseed[1]
  ELSE Get(call.params, "startingValues", <<1>>)

(* the second differences of a sequence *)
SecondDifferences(t) ==
  [i \in 1 .. (Len(t) - 2) |-> (t[i + 2] - t[i + 1]) - (t[i + 1] - t[i])]

(* C23: for SECOND_ORDER_CONSTANT with a seed of one or two values, every  *)
(* sequence generateSequence returns at length >= 3, extended by its       *)
(* nextValue, has all second differences equal to secondDifference, or to  *)
(* 2 when the parameter is absent.                                         *)
C23_SecondDifferencesConstant ==
  \A k \in DOMAIN ecalls :
    (/\ ecalls[k].fn = "generateSequence"
     /\ ekind = "SECOND_ORDER_CONSTANT"
     /\ elength >= 3
     /\ Len(SeedOf(ecalls[k])) \in {1, 2}) =>
      LET t == Append(ecalls[k].out[1].sequence, ecalls[k].out[1].nextValue)
      IN /\ Len(t) = elength + 1
         /\ \A i \in DOMAIN SecondDifferences(t) :
              SecondDifferences(t)[i] = Get(ecalls[k].params, "secondDifference", 2)

(* generateSequence returned four terms grown from the one-value seed [5]  *)
(* with secondDifference absent: 5, 7, 11, 17 and nextValue 25             *)
C23_Witness ==
  /\ ekind = "SECOND_ORDER_CONSTANT"
  /\ elength = 4
  /\ eseed = None
  /\ \E k \in DOMAIN ecalls :
       /\ ecalls[k].fn = "generateSequence"
       /\ "secondDifference" \notin DOMAIN ecalls[k].params
       /\ ecalls[k].out[1] = [sequence |-> <<5, 7, 11, 17>>, nextValue |-> 25]

---------------------------------------------------------------------------
(* The alternating detector, checked under SpecDet *)

(* the difference between term i + 1 and term i of the sequence handed in  *)
(* (difference-index i - 1 of the source)                                  *)
Step(i) == dseq[i + 1] - dseq[i]

(* C24: checkAlternatingPattern returns isAlternating = true exactly when  *)
(* the sequence has at least 4 terms, the differences at even              *)
(* difference-indices are all equal, those at odd difference-indices are   *)
(* all equal, and the two constants differ; nextValue is then the last     *)
(* term plus the constant whose parity is that of the index of the next    *)
(* difference.  So it never fires where checkConstantDifference fires.     *)
C24_AlternatingExact ==
  dcall = "checkAlternatingPattern" =>
    /\ dresult.isAlternating <=>
         /\ Len(dseq) >= 4
         /\ \A i \in 3 .. (Len(dseq) - 1) : Step(i) = Step(i - 2)
         /\ Step(1) # Step(2)
    /\ IF dresult.isAlternating
       THEN dresult.nextValue = dseq[Len(dseq)] + Step(Len(dseq) - 2)
       ELSE dresult.nextValue = Null
    /\ ~(dresult.isAlternating /\ checkConstantDifference(dseq).isConstant)

(* checkAlternatingPattern found +3, -1 in 1, 4, 3, 6, 5: the next         *)
(* difference has index 4, so the next value is 5 + 3                      *)
C24_Witness ==
  /\ dcall = "checkAlternatingPattern"
  /\ dseq = NumSeq(<<1, 4, 3, 6, 5>>)
  /\ dresult.isAlternating
  /\ dresult.nextValue = Num(8)

---------------------------------------------------------------------------
(* The first of several sequences, checked under SpecEval *)

(* C25: for every rule type and every parameters record, optional fields   *)
(* such as base, powerType, c, cubicD or startingValues absent included,   *)
(* the first sequence (output index 0) of generateMultipleSequences(kind,  *)
(* params, count, length) and its nextValue are those of                   *)
(* generateSequence(kind, params, length): the variation applied at index  *)
(* 0 is zero.                                                              *)
C25_FirstSequenceUnvaried ==
  \A j, k \in DOMAIN ecalls :
    (/\ ecalls[j].fn = "generateMultipleSequences"
     /\ ecalls[k].fn = "generateSequence"
     /\ eseed = None) =>
      ecalls[j].out[1] = ecalls[k].out[1]

---------------------------------------------------------------------------
(* Soundness of the ratio detector, checked under SpecDet *)

(* C26: whenever checkConstantRatio returns isConstant = true with ratio r *)
(* for a sequence of integers in [-999, 999], every term is the term       *)
(* before it times r, and nextValue is the last term times r.              *)
C26_ConstantRatioSound ==
  (/\ dcall = "checkConstantRatio"
   /\ dresult.isConstant
   /\ \A i \in DOMAIN dseq :
        IsInteger(dseq[i]) /\ Abs(dseq[i]) <= Num(999)) =>
    /\ IsInteger(dresult.ratio)
    /\ \A i \in 1 .. (Len(dseq) - 1) :
         Num(dseq[i + 1]) = dseq[i] * dresult.ratio
    /\ Num(dresult.nextValue) = dseq[Len(dseq)] * dresult.ratio

---------------------------------------------------------------------------
(* verifySequence calls, validation.ts:709-723 *)

(* generateSequence seeded with sequence.slice(0, 3), compared term by     *)
(* term and on the next value                                              *)
verifySequence(sequence, expectedNext, ruleType, params) ==
  LET length == Len(sequence)
      generated == generateSequence(ruleType, params, length,
                                    Some(SubSeq(sequence, 1, Min(3, length))))
      sequenceMatches == \A idx \in DOMAIN sequence :
                            generated.sequence[idx] = sequence[idx]
      nextMatches == generated.nextValue = expectedNext
  IN sequenceMatches /\ nextMatches

(* a generated sequence with term j (none when j = 0) moved by one *)
Tampered(sequence, j) ==
  [i \in DOMAIN sequence |-> IF i = j THEN sequence[i] + 1 ELSE sequence[i]]

(* the sequences handed in: generated ones, as they are or with one term   *)
(* off, with their next value or one off it                                *)
InitVerify ==
  /\ verKind \in RuleProgramTypes
  /\ verParams \in KindParams(verKind)
  /\ \E len \in 1 .. MaxLength, seed \in ParamSeeds, j \in 0 .. MaxLength,
        off \in {0, 1} :
       LET generated == generateSequence(verKind, verParams, len, Some(seed))
       IN /\ j <= len
          /\ verSeq = Tampered(generated.sequence, j)
          /\ verNext = generated.nextValue + off
  /\ verOut = None
  /\ ValIdle
  /\ EvalIdle
  /\ GenIdle
  /\ DetIdle
  /\ HashIdle
  /\ ConcIdle

CallVerifySequence ==
  /\ verOut = None
  /\ verOut' = Some(verifySequence(verSeq, verNext, verKind, verParams))
  /\ UNCHANGED <<verSeq, verNext, verKind, verParams, valVars, evalVars, genVars, detVars, hashVars, concVars>>

NextVerify == CallVerifySequence

SpecVerify == InitVerify /\ [][NextVerify]_vars

---------------------------------------------------------------------------
(* Properties of verifySequence, checked under SpecVerify *)

(* the seed terms of a rule type: the terms its formula cannot compute     *)
OwnSeeds(ruleType) ==
  IF ruleType \in PositionalTypes THEN 0
  ELSE IF ruleType \in {"FIBONACCI_LIKE", "SECOND_ORDER_CONSTANT"} THEN 2
  ELSE IF ruleType = "TRIBONACCI_LIKE" THEN 3
  ELSE 1

(* C27: verifySequence returns true only if the sequence follows the rule: *)
(* every term after the rule's own seed terms (one for arithmetic,         *)
(* geometric, linear-recursive and the other single-seed rule types) is    *)
(* evaluateNextValue of the terms before it, and expectedNext is the       *)
(* continuation; a sequence whose second or third term breaks a            *)
(* single-seed rule is rejected.                                           *)
C27_VerifiedSequencesFollowRule ==
  verOut = Some(TRUE) =>
    /\ \A n \in (OwnSeeds(verKind) + 1) .. Len(verSeq) :
         verSeq[n] = evaluateNextValue(SubSeq(verSeq, 1, n - 1), verKind,
                                       verParams, n)
    /\ verNext = evaluateNextValue(verSeq, verKind, verParams, Len(verSeq) + 1)

---------------------------------------------------------------------------
(* The seed sets of a built puzzle, checked under SpecGen *)

PairwiseDistinct(seq) ==
  \A a, b \in DOMAIN seq : a # b => seq[a] # seq[b]

(* C28: a puzzle built for a rule type that needs starting values uses     *)
(* NUM_SEQUENCES pairwise distinct seed sets whenever the suggested sets   *)
(* are pairwise distinct: padding from the base startingValues adds no set *)
(* equal to one already there, so no two sequences of the puzzle are       *)
(* identical.                                                              *)
C28_SeedSetsDistinct ==
  (/\ response # None
   /\ ~BuildThrows(response[1])
   /\ needsStartingValues(response[1].ruleProgramType)
   /\ PairwiseDistinct(Suggested(response[1]))) =>
    /\ PairwiseDistinct(SubSeq(StartingValueSets(response[1]), 1, NUM_SEQUENCES))
    /\ PairwiseDistinct(buildPuzzleFromAIResponse(response[1]).sequences)

---------------------------------------------------------------------------
(* The fallback catalog before the validator, checked under SpecGen *)

(* C29: validatePuzzle returns valid = true for each of the five entries   *)
(* of FALLBACK_PUZZLES, so every puzzle generatePuzzle returns, fallback   *)
(* or not, is one the validator accepts.                                   *)
C29_FallbacksPassValidator ==
  /\ Len(FALLBACK_PUZZLES) = 5
  /\ \A i \in DOMAIN FALLBACK_PUZZLES :
       LET validation == validatePuzzle(FALLBACK_PUZZLES[i])
       IN ~validation.threw /\ validation.valid /\ validation.errors = <<>>
  /\ result # None => validatePuzzle(result[1].puzzle).valid

(* generatePuzzle returned the second-order entry of the catalog, whose    *)
(* sequences a quadratic fits exactly, after twenty failed attempts        *)
C29_Witness ==
  /\ pc = "done"
  /\ result # None
  /\ result[1].isFallback
  /\ result[1].puzzle = FALLBACK_PUZZLES[1]
  /\ FitErrorBelowHalf(fitQuadratic(result[1].puzzle.sequences[1]))
  /\ validatePuzzle(result[1].puzzle).valid

=============================================================================
